---------------------------- MODULE Spec2Model ----------------------------
(***************************************************************************)
(* A model of the neural-network pair styles of this LAMMPS tree:          *)
(*   PairNN          (pair_nn.cpp, kept as src/unnamed/part_000),          *)
(*   PairNNAngular2  (src/src/pair_nn_angular2.cpp),                       *)
(*   PairNNAngular3  (src/src/pair_nn_angular3.cpp).                       *)
(*                                                                         *)
(* Numbers.  The code computes in double precision; the model computes     *)
(* exactly, over the rationals (a pair <<n, d>> in lowest terms, d > 0).   *)
(* The three transcendental functions are sampled where their values are   *)
(* exact:                                                                  *)
(*   sqrt  at squares of rationals,                                        *)
(*   cos / sin  at whole multiples of pi/2 (values 1, 0, -1),              *)
(*   exp   at integers, as a power of the base that stands for e.          *)
(* m_pi and e enter the results only as factors and powers, so they are    *)
(* carried as the rationals 22/7 and 2; every relation checked below is    *)
(* an algebraic identity in them.  The particle configurations and the     *)
(* parameter files are chosen so that compute() never leaves these sample  *)
(* points (Representable).                                                 *)
(***************************************************************************)
EXTENDS Integers, Sequences, FiniteSets, TLC

(***************************************************************************)
(* Exact rational arithmetic                                               *)
(***************************************************************************)
Abs(n) ==
    IF n < 0 THEN -n ELSE n

RECURSIVE Gcd(_, _)
Gcd(a, b) ==
    IF b = 0 THEN a ELSE Gcd(b, a % b)

Q(n, d) ==
    LET g == Gcd(Abs(n), Abs(d))
        s == IF d < 0 THEN -1 ELSE 1
    IN  <<(s * n) \div g, (s * d) \div g>>

Zero ==
    <<0, 1>>

One ==
    <<1, 1>>

IsInt(a) ==
    a[2] = 1

RAdd(a, b) ==
    LET g == Gcd(a[2], b[2])
    IN  Q(a[1] * (b[2] \div g) + b[1] * (a[2] \div g), (a[2] \div g) * b[2])

RNeg(a) ==
    <<-a[1], a[2]>>

RSub(a, b) ==
    RAdd(a, RNeg(b))

RMul(a, b) ==
    LET g1 == Gcd(Abs(a[1]), b[2])
        g2 == Gcd(Abs(b[1]), a[2])
    IN  <<(a[1] \div g1) * (b[1] \div g2), (a[2] \div g2) * (b[2] \div g1)>>

RInv(b) ==
    IF b[1] < 0 THEN <<-b[2], -b[1]>> ELSE <<b[2], b[1]>>

RDiv(a, b) ==
    RMul(a, RInv(b))

RLt(a, b) ==
    a[1] * b[2] < b[1] * a[2]

RGe(a, b) ==
    ~RLt(a, b)

RGt(a, b) ==
    RLt(b, a)

RECURSIVE IPow(_, _)
IPow(b, n) ==
    IF n = 0 THEN 1 ELSE b * IPow(b, n - 1)

(* pow(base, n) of <math.h> for an integer exponent; pow(0, 0) = 1 *)
RPow(a, n) ==
    IF n >= 0 THEN Q(IPow(a[1], n), IPow(a[2], n))
    ELSE Q(IPow(a[2], -n), IPow(a[1], -n))

RECURSIVE RSumSeq(_)
RSumSeq(s) ==
    IF s = <<>> THEN Zero ELSE RAdd(Head(s), RSumSeq(Tail(s)))

(***************************************************************************)
(* <math.h> at the sample points                                           *)
(***************************************************************************)
MaxRoot ==
    64

IsSquare(n) ==
    \E k \in 0..MaxRoot : k * k = n

ISqrt(n) ==
    CHOOSE k \in 0..MaxRoot : k * k = n

IsSquareQ(a) ==
    a[1] >= 0 /\ IsSquare(a[1]) /\ IsSquare(a[2])

sqrt(a) ==
    <<ISqrt(a[1]), ISqrt(a[2])>>

m_pi ==
    <<22, 7>>

(* the one integer n with a = n, undefined off the sample points *)
Whole(a) ==
    CHOOSE n \in {a[1]} : a[2] = 1

(* the argument as a number of quarter turns: a = (k/2) * m_pi *)
QuarterTurns(a) ==
    RMul(<<2, 1>>, RDiv(a, m_pi))

IsQuarterTurn(a) ==
    IsInt(QuarterTurns(a))

cos(a) ==
    LET k == Whole(QuarterTurns(a)) % 4
    IN  IF k = 0 THEN One ELSE IF k = 2 THEN RNeg(One) ELSE Zero

sin(a) ==
    LET k == Whole(QuarterTurns(a)) % 4
    IN  IF k = 1 THEN One ELSE IF k = 3 THEN RNeg(One) ELSE Zero

exp(a) ==
    RPow(<<2, 1>>, Whole(a))

(***************************************************************************)
(* arma::mat: a matrix is a sequence of rows, a row a sequence of numbers  *)
(***************************************************************************)
(* A sequence built element by element, held as its elements.             *)
Stored(s) ==
    IF DOMAIN s = {} THEN <<>> ELSE s \o <<>>

n_rows(M) ==
    Len(M)

n_cols(M) ==
    IF Len(M) = 0 THEN 0 ELSE Len(M[1])

MatMul(A, B) ==
    Stored([i \in 1..n_rows(A) |->
        Stored([j \in 1..n_cols(B) |->
            RSumSeq(Stored([k \in 1..n_cols(A) |-> RMul(A[i][k], B[k][j])]))])])

MatAdd(A, B) ==
    Stored([i \in 1..n_rows(A) |->
        Stored([j \in 1..n_cols(A) |-> RAdd(A[i][j], B[i][j])])])

Schur(A, B) ==
    Stored([i \in 1..n_rows(A) |->
        Stored([j \in 1..n_cols(A) |-> RMul(A[i][j], B[i][j])])])

Transpose(A) ==
    Stored([j \in 1..n_cols(A) |-> Stored([i \in 1..n_rows(A) |-> A[i][j]])])

Conformable(A, B) ==
    n_cols(A) = n_rows(B)

SameSize(A, B) ==
    n_rows(A) = n_rows(B) /\ n_cols(A) = n_cols(B)

(***************************************************************************)
(* 3-vectors                                                               *)
(***************************************************************************)
V0 ==
    <<Zero, Zero, Zero>>

VAdd(u, v) ==
    <<RAdd(u[1], v[1]), RAdd(u[2], v[2]), RAdd(u[3], v[3])>>

VSub(u, v) ==
    <<RSub(u[1], v[1]), RSub(u[2], v[2]), RSub(u[3], v[3])>>

VNeg(u) ==
    <<RNeg(u[1]), RNeg(u[2]), RNeg(u[3])>>

VScale(a, u) ==
    <<RMul(a, u[1]), RMul(a, u[2]), RMul(a, u[3])>>

VDot(u, v) ==
    RAdd(RAdd(RMul(u[1], v[1]), RMul(u[2], v[2])), RMul(u[3], v[3]))

VInt(p) ==
    << <<p[1], 1>>, <<p[2], 1>>, <<p[3], 1>> >>

(* element i of a std::vector, with the code's index (from 0) *)
At(v, i) ==
    v[i + 1]

InRange(v, i) ==
    0 <= i /\ i < Len(v)

Two ==
    <<2, 1>>

Half ==
    <<1, 2>>

(***************************************************************************)
(* Network evaluator and reverse-mode differentiator (the three styles     *)
(* share the text of network, backPropagation, sigmoid, sigmoidDerivative) *)
(***************************************************************************)
sigmoid(matrix) ==
    Stored([i \in 1..n_rows(matrix) |-> Stored([j \in 1..n_cols(matrix) |->
        RDiv(One, RAdd(One, exp(RNeg(matrix[i][j]))))])])

(* a variant: the sigmoid itself where its derivative belongs *)
sigmoidForDerivative(matrix) ==
    sigmoid(matrix)

sigmoidDerivative(matrix) ==
    LET sigmoidMatrix == sigmoid(matrix)
    IN  Schur(sigmoidMatrix,
              Stored([i \in 1..n_rows(matrix) |-> Stored([j \in 1..n_cols(matrix) |->
                  RSub(One, sigmoidMatrix[i][j])])]))

(* a variant: the hidden layers without their sigmoid *)
networkWithoutSigmoid(W, B, nLayers, inputVector) ==
    LET pre[l \in 0..(nLayers + 1)] ==
            IF l = 0 THEN inputVector
            ELSE MatAdd(MatMul(pre[l - 1], At(W, l - 1)), At(B, l - 1))
    IN  [m_preActivations |-> Stored([l \in 1..(nLayers + 2) |-> pre[l - 1]]),
         m_activations    |-> Stored([l \in 1..(nLayers + 2) |-> pre[l - 1]]),
         value            |-> pre[nLayers + 1][1][1]]

(* the caches after network(inputVector): layer l of the code is entry l+1 *)
network(W, B, nLayers, inputVector) ==
    LET pre[l \in 0..(nLayers + 1)] ==
            IF l = 0 THEN inputVector
            ELSE LET below == IF l = 1 THEN inputVector ELSE sigmoid(pre[l - 1])
                 IN  MatAdd(MatMul(below, At(W, l - 1)), At(B, l - 1))
        act[l \in 0..(nLayers + 1)] ==
            IF l = 0 \/ l = nLayers + 1 THEN pre[l] ELSE sigmoid(pre[l])
    IN  [m_preActivations |-> Stored([l \in 1..(nLayers + 2) |-> pre[l - 1]]),
         m_activations    |-> Stored([l \in 1..(nLayers + 2) |-> act[l - 1]]),
         value            |-> pre[nLayers + 1][1][1]]

(* the sizes network() needs: arma aborts a product or a sum of matrices   *)
(* whose sizes do not agree                                                *)
networkSizesOk(W, B, nLayers, nInputs) ==
    /\ Len(W) >= nLayers + 1
    /\ Len(B) >= nLayers + 1
    /\ \A l \in 0..nLayers :
          /\ n_rows(At(W, l)) = (IF l = 0 THEN nInputs ELSE n_cols(At(W, l - 1)))
          /\ n_rows(At(B, l)) = 1
          /\ n_cols(At(B, l)) = n_cols(At(W, l))
    /\ n_cols(At(W, nLayers)) >= 1

(* m_derivatives after backPropagation(), from the cached pre-activations *)
backPropagation(Wt, pre, nLayers) ==
    LET der[l \in 0..(nLayers + 1)] ==
            IF l = nLayers + 1 THEN <<<<One>>>>
            ELSE IF l = 0 THEN MatMul(der[1], At(Wt, 0))
            ELSE Schur(MatMul(der[l + 1], At(Wt, l)),
                       sigmoidDerivative(At(pre, l)))
    IN  Stored([l \in 1..(nLayers + 2) |-> der[l - 1]])

(***************************************************************************)
(* PairNNAngular2: cutoff and symmetry functions                           *)
(***************************************************************************)
(* 0.5*(cos(m_pi*R/Rc) + 1) *)
FcFormula(R, Rc) ==
    RMul(Half, RAdd(cos(RDiv(RMul(m_pi, R), Rc)), One))

(* -(0.5*m_pi*Rcinv) * sin(m_pi*R*Rcinv) *)
dFcdRFormula(R, Rc) ==
    LET Rcinv == RDiv(One, Rc)
    IN  RMul(RNeg(RMul(RMul(Half, m_pi), Rcinv)), sin(RMul(RMul(m_pi, R), Rcinv)))

(* double Fc(double R, double Rc) *)
Fc(R, Rc) ==
    IF RLt(R, Rc) THEN FcFormula(R, Rc) ELSE Zero

(* arma::mat Fc(arma::mat R, double Rc, bool cut), one column *)
FcMat(R, Rc, cut) ==
    IF cut /\ RGt(R, Rc) THEN Zero ELSE FcFormula(R, Rc)

(* double dFcdR(double R, double Rc) *)
dFcdR(R, Rc) ==
    IF RLt(R, Rc) THEN dFcdRFormula(R, Rc) ELSE Zero

(* arma::mat dFcdR(arma::mat R, double Rc, bool cut), one column *)
dFcdRMat(R, Rc, cut) ==
    IF cut /\ RGt(R, Rc) THEN Zero ELSE dFcdRFormula(R, Rc)

Gauss(eta, sq) ==
    exp(RNeg(RMul(eta, sq)))

(* the Gaussian without the cutoff function *)
G2NoCutoff(rij, eta, Rc, Rs) ==
    Gauss(eta, RMul(RSub(rij, Rs), RSub(rij, Rs)))

G2(rij, eta, Rc, Rs) ==
    RMul(Gauss(eta, RMul(RSub(rij, Rs), RSub(rij, Rs))), Fc(rij, Rc))

(* one column of dG2 *)
dG2dR(Rij, eta, Rc, Rs) ==
    RMul(Gauss(eta, RMul(RSub(Rij, Rs), RSub(Rij, Rs))),
         RAdd(RMul(RMul(RMul(Two, eta), RSub(Rs, Rij)), FcMat(Rij, Rc, FALSE)),
              dFcdRMat(Rij, Rc, FALSE)))

G5(rij, rik, cosTheta, eta, Rc, zeta, lambda) ==
    RMul(RMul(RMul(RMul(RPow(Two, 1 - zeta[1]),
                        RPow(RAdd(One, RMul(lambda, cosTheta)), zeta[1])),
                   Gauss(eta, RAdd(RMul(rij, rij), RMul(rik, rik)))),
              Fc(rij, Rc)),
         Fc(rik, Rc))

(* dGij and dGik of dG5dR, as the record [dGij, dGik] of two 3-vectors *)
dG5dR(dij, dik, Rij, Rik, cosTheta, eta, Rc, zeta, lambda) ==
    LET powCosThetaM1 == RMul(RPow(Two, 1 - zeta[1]),
                              RPow(RAdd(One, RMul(lambda, cosTheta)), zeta[1] - 1))
        F1 == RMul(powCosThetaM1, RAdd(One, RMul(lambda, cosTheta)))
        F2 == Gauss(eta, RAdd(RMul(Rij, Rij), RMul(Rik, Rik)))
        FcRij == Fc(Rij, Rc)
        FcRik == Fc(Rik, Rc)
        F3 == RMul(FcRij, FcRik)
        K == RMul(RMul(lambda, zeta), powCosThetaM1)
        L == RMul(RMul(Two, eta), F2)
        Mij == dFcdR(Rij, Rc)
        Mik == dFcdR(Rik, Rc)
        term1 == RMul(RMul(K, F2), F3)
        term2 == RMul(RMul(F1, L), F3)
        F1F2 == RMul(F1, F2)
        term3ij == RMul(RMul(F1F2, Mij), FcRik)
        term3ik == RMul(RMul(F1F2, Mik), FcRij)
        RijInv == RDiv(One, Rij)
        cosRijInv2 == RMul(RMul(cosTheta, RijInv), RijInv)
        RikInv == RDiv(One, Rik)
        cosRikInv2 == RMul(RMul(cosTheta, RikInv), RikInv)
        RijRikInv == RMul(RijInv, RikInv)
        termij == RSub(RAdd(RMul(cosRijInv2, term1), term2), RMul(RijInv, term3ij))
        termik == RSub(RAdd(RMul(cosRikInv2, term1), term2), RMul(RikInv, term3ik))
        crossTerm == RMul(RNeg(term1), RijRikInv)
    IN  [dGij |-> Stored([c \in 1..3 |->
                     RSub(RMul(RNeg(dij[c]), termij), RMul(dik[c], crossTerm))]),
         dGik |-> Stored([c \in 1..3 |->
                     RSub(RMul(RNeg(dik[c]), termik), RMul(dij[c], crossTerm))])]

(***************************************************************************)
(* Parameter files.  A training directory holds graph.dat (header, weight  *)
(* rows, bias rows), parameters.dat (count, one record per line) and,      *)
(* optionally, mean.txt and minmax.txt.  PairNN reads the graph file only. *)
(***************************************************************************)
N(k) ==
    <<k, 1>>

GraphHidden ==
    [open |-> TRUE, m_nLayers |-> 1, m_nNodes |-> 2, m_numberOfInputs |-> 2, m_numberOfOutputs |-> 1,
     weights |-> << <<N(-4), N(4)>>, <<N(16), N(0)>>, <<N(1), N(-2)>> >>,
     biases  |-> << <<N(0), N(1)>>, <<N(3)>> >>]

(* no hidden layer: the 2 x 1 input-to-output weights, one per row *)
GraphLinear ==
    [open |-> TRUE, m_nLayers |-> 0, m_nNodes |-> 2, m_numberOfInputs |-> 2, m_numberOfOutputs |-> 1,
     weights |-> << <<N(3)>>, <<N(5)>> >>,
     biases  |-> << <<N(7)>> >>]

(* no hidden layer, with a third weight row *)
GraphLinearPadded ==
    [open |-> TRUE, m_nLayers |-> 0, m_nNodes |-> 2, m_numberOfInputs |-> 2, m_numberOfOutputs |-> 1,
     weights |-> << <<N(1), N(1)>>, <<N(1), N(1)>>, <<N(3), N(5)>> >>,
     biases  |-> << <<N(7)>> >>]

(* one input (the pair distance), for PairNN *)
GraphPair ==
    [open |-> TRUE, m_nLayers |-> 1, m_nNodes |-> 2, m_numberOfInputs |-> 1, m_numberOfOutputs |-> 1,
     weights |-> << <<N(1), N(-1)>>, <<N(2), N(1)>> >>,
     biases  |-> << <<N(0), N(1)>>, <<N(1)>> >>]

(* the header asks for three weight rows (2 inputs, 1 output), two are there *)
GraphShort ==
    [open |-> TRUE, m_nLayers |-> 1, m_nNodes |-> 2, m_numberOfInputs |-> 2,
     m_numberOfOutputs |-> 1,
     weights |-> << <<N(-4), N(4)>>, <<N(16), N(0)>> >>,
     biases  |-> << <<N(0), N(1)>>, <<N(3)>> >>]

(* a radial record is eta Rc Rs, an angular record eta Rc zeta lambda *)
ParamsRadialAngular ==
    [open |-> TRUE, m_numberOfSymmFunc |-> 2,
     records |-> << <<N(1), N(2), N(2)>>, <<N(1), N(2), N(1), N(-1)>> >>]

ParamsRadial ==
    [open |-> TRUE, m_numberOfSymmFunc |-> 2,
     records |-> << <<N(1), N(2), N(2)>>, <<N(3), N(2), N(2)>> >>]

(* a file that is not in the training directory *)
Missing ==
    [open |-> FALSE]

(* one descriptor declared and given, for a network of two inputs *)
ParamsOne ==
    [open |-> TRUE, m_numberOfSymmFunc |-> 1,
     records |-> << <<N(1), N(2), N(2)>> >>]

(* two descriptors declared, one record given *)
ParamsFew ==
    [open |-> TRUE, m_numberOfSymmFunc |-> 2,
     records |-> << <<N(1), N(2), N(2)>> >>]

NoFile ==
    [open |-> FALSE, values |-> <<>>]

MeanFile ==
    [open |-> TRUE, values |-> << <<1, 4>>, <<1, 16>> >>]

Dirs ==
    [ra    |-> [graph |-> GraphHidden, parameters |-> ParamsRadialAngular, mean |-> NoFile],
     rr    |-> [graph |-> GraphHidden, parameters |-> ParamsRadial, mean |-> NoFile],
     ram   |-> [graph |-> GraphHidden, parameters |-> ParamsRadialAngular, mean |-> MeanFile],
     lin   |-> [graph |-> GraphLinear, parameters |-> ParamsRadialAngular, mean |-> NoFile],
     linp  |-> [graph |-> GraphLinearPadded, parameters |-> ParamsRadialAngular, mean |-> NoFile],
     pair  |-> [graph |-> GraphPair, parameters |-> ParamsRadial, mean |-> NoFile],
     nograph |-> [graph |-> Missing, parameters |-> ParamsRadialAngular, mean |-> NoFile],
     nopar |-> [graph |-> GraphHidden, parameters |-> Missing, mean |-> NoFile],
     one   |-> [graph |-> GraphHidden, parameters |-> ParamsOne, mean |-> NoFile],
     few   |-> [graph |-> GraphHidden, parameters |-> ParamsFew, mean |-> NoFile],
     short |-> [graph |-> GraphShort, parameters |-> ParamsRadialAngular, mean |-> NoFile]]

DirsOf(st) ==
    IF st = "nn" THEN {"pair", "nograph"}
    ELSE {"ra", "rr", "ram", "lin", "linp", "nograph", "nopar", "one", "few", "short"}

(* the values an uninitialised matrix entry or an out-of-range read may hold *)
Garbage ==
    {N(0), N(9)}

(* the fourth pair_coeff argument, as force->numeric returns it *)
CutoffArgs ==
    {N(2), N(4), <<7, 5>>}

(***************************************************************************)
(* read_file                                                               *)
(***************************************************************************)
Max(a, b) ==
    IF a > b THEN a ELSE b

(* std::vector::resize: the first n entries kept, new ones default-built *)
Resize(v, n, fresh) ==
    Stored([k \in 1..Max(n, 0) |-> IF k <= Len(v) THEN v[k] ELSE fresh])

(* arma::mat matrix(1,m_nNodes) filled from the numbers of one line *)
LineMatrix(line, nNodes, g) ==
    Stored([j \in 1..nNodes |-> IF j <= Len(line) THEN line[j] ELSE g])

(* arma::reshape(M, r, c): elements taken column by column, zero padded *)
reshape(M, r, c) ==
    LET nr == n_rows(M)
        total == nr * n_cols(M)
        elem(k) == IF k < total THEN M[(k % nr) + 1][(k \div nr) + 1] ELSE Zero
    IN  Stored([i \in 1..r |-> Stored([j \in 1..c |-> elem((j - 1) * r + (i - 1))])])

(* Mat::shed_cols(first, last) on a matrix of one row *)
shed_cols(M, first, last) ==
    Stored([i \in 1..n_rows(M) |->
        Stored([j \in 1..(n_cols(M) - (last - first + 1)) |->
            IF j <= first THEN M[i][j] ELSE M[i][j + (last - first + 1)]])])

(* The graph.dat part of read_file, the same text in the three styles.     *)
(* throws: arma or std::vector raises an exception (a line longer than     *)
(* m_nNodes, shed_cols out of bounds); ub: an element of weightsTemp or    *)
(* m_biases past the end is used, and reads as the row garbage.            *)
ReadGraph(file, oldBiases, g) ==
    LET L == file.m_nLayers
        nNodes == file.m_nNodes
        D == file.m_numberOfInputs
        O == file.m_numberOfOutputs
        weightsTemp == Stored([r \in 1..Len(file.weights) |->
                           LineMatrix(file.weights[r], nNodes, g)])
        biases == oldBiases \o Stored([r \in 1..Len(file.biases) |->
                                   << LineMatrix(file.biases[r], nNodes, g) >>])
        Row(r) == IF InRange(weightsTemp, r) THEN At(weightsTemp, r)
                  ELSE Stored([j \in 1..nNodes |-> g])
        first == Max(D, 1)
        perLayer == Max(nNodes, 1)
        hiddenStart(i) == first + i * perLayer
        outStart == first + Max(L - 1, 0) * perLayer
        outRows == Max(O, 1)
        outputLayer == Stored([r \in 1..outRows |-> Row(outStart + r - 1)])
        W(l) == IF l = L THEN reshape(outputLayer, nNodes, O)
                ELSE IF l = 0 THEN Stored([r \in 1..first |-> Row(r - 1)])
                ELSE Stored([r \in 1..perLayer |-> Row(hiddenStart(l - 1) + r - 1)])
        weights == Stored([l \in 1..(L + 1) |-> W(l - 1)])
        longLine == \/ \E r \in 1..Len(file.weights) : Len(file.weights[r]) > nNodes
                    \/ \E r \in 1..Len(file.biases) : Len(file.biases[r]) > nNodes
        biasThere == InRange(biases, L)
        shedOk == biasThere => (1 <= nNodes - 1 /\ nNodes - 1 < n_cols(At(biases, L)))
    IN  [throws |-> longLine \/ ~shedOk,
         ub |-> outStart + outRows > Len(weightsTemp) \/ ~biasThere,
         m_nLayers |-> L, m_nNodes |-> nNodes,
         m_numberOfInputs |-> D, m_numberOfOutputs |-> O,
         m_weights |-> weights,
         m_weightsTransposed |-> Stored([l \in 1..(L + 1) |-> Transpose(weights[l])]),
         m_biases |-> IF biasThere /\ shedOk
                      THEN [biases EXCEPT ![L + 1] = shed_cols(@, 1, nNodes - 1)]
                      ELSE biases]

(* The parameters.dat part of read_file (PairNNAngular2 and 3).            *)
(* ub: a record line past the declared count is stored past the end.       *)
ReadParameters(file, oldParameters) ==
    LET n == file.m_numberOfSymmFunc
        lines == file.records
        base == IF Len(lines) = 0 THEN oldParameters ELSE Resize(oldParameters, n, <<>>)
    IN  [ub |-> Len(lines) > n,
         m_numberOfSymmFunc |-> n,
         m_parameters |-> Stored([k \in 1..Len(base) |->
                              IF k <= Len(lines) THEN base[k] \o lines[k] ELSE base[k]])]

(***************************************************************************)
(* What compute() is handed: atom->x, atom->f, list->inum, list->ilist     *)
(* (the first inum particles, in order), list->firstneigh, eng_vdwl.       *)
(* Particles are numbered from 0; particles from inum on are ghosts.       *)
(* A list may hold a particle that lies beyond the cutoff.                 *)
(***************************************************************************)
Configurations ==
    [pair  |-> [x |-> << <<0,0,0>>, <<1,0,0>> >>, inum |-> 2,
                firstneigh |-> << <<1>>, <<0>> >>],
     half  |-> [x |-> << <<0,0,0>>, <<1,0,0>>, <<5,0,0>> >>, inum |-> 1,
                firstneigh |-> << <<1>> >>],
     far   |-> [x |-> << <<0,0,0>>, <<3,0,0>> >>, inum |-> 2,
                firstneigh |-> << <<1>>, <<0>> >>],
     chain |-> [x |-> << <<0,0,0>>, <<1,0,0>>, <<2,0,0>> >>, inum |-> 3,
                firstneigh |-> << <<1,2>>, <<0,2>>, <<0,1>> >>],
     bent  |-> [x |-> << <<0,0,0>>, <<1,0,0>>, <<0,1,0>> >>, inum |-> 3,
                firstneigh |-> << <<1,2>>, <<0,2>>, <<0,1>> >>],
     cross |-> [x |-> << <<0,0,0>>, <<1,0,0>>, <<0,1,0>>, <<-1,0,0>> >>, inum |-> 4,
                firstneigh |-> << <<1,2,3>>, <<0,2,3>>, <<0,1,3>>, <<0,1,2>> >>],
     lone  |-> [x |-> << <<0,0,0>>, <<1,0,0>>, <<9,0,0>> >>, inum |-> 3,
                firstneigh |-> << <<1>>, <<0>>, <<>> >>],
     ghost |-> [x |-> << <<0,0,0>>, <<1,0,0>>, <<-1,0,0>>, <<3,0,0>> >>, inum |-> 1,
                firstneigh |-> << <<1,2,3>> >>]]

(* the number of compute calls the caller makes on one object *)
MaxCalls ==
    2

Reverse(s) ==
    Stored([q \in 1..Len(s) |-> s[Len(s) + 1 - q]])

(* The neighbour list of the same particles may come in another order: the *)
(* anchors of ilist, and the neighbours inside every list, each as listed  *)
(* above or reversed.                                                      *)
Orders ==
    [anchors : BOOLEAN, lists : BOOLEAN]

Listed ==
    [anchors |-> FALSE, lists |-> FALSE]

Handed(c, o) ==
    LET cfg == Configurations[c]
        first == Stored([q \in 1..cfg.inum |-> q - 1])
    IN  [x |-> cfg.x, inum |-> cfg.inum,
         ilist |-> IF o.anchors THEN Reverse(first) ELSE first,
         firstneigh |-> Stored([q \in 1..Len(cfg.firstneigh) |->
                           IF o.lists THEN Reverse(cfg.firstneigh[q])
                           ELSE cfg.firstneigh[q]])]

(* atom->tag: particle p carries the tag p + 1 *)
Tags(n) ==
    Stored([p \in 1..n |-> p])

(* the largest multiple of the prior force and energy pattern *)
MaxPrior ==
    1

PriorForce(k, n) ==
    Stored([p \in 1..n |-> <<N(k * p), N(-k), N(0)>>])

PriorEnergy(k) ==
    N(5 * k)

(***************************************************************************)
(* Geometry of one anchor, as the pair and triplet loops compute it        *)
(***************************************************************************)
Del(xs, i, j) ==
    VSub(VInt(At(xs, j)), VInt(At(xs, i)))

Rsq(xs, i, j) ==
    VDot(Del(xs, i, j), Del(xs, i, j))

(* not (rsq >= cutoff*cutoff) *)
InCutoff(xs, i, j, cut) ==
    RLt(Rsq(xs, i, j), RMul(cut, cut))

RECURSIVE Flatten(_)
Flatten(ss) ==
    IF ss = <<>> THEN <<>> ELSE Head(ss) \o Flatten(Tail(ss))

(* the positions jj of jlist, from position `from` on, that pass the test *)
Short(xs, i, jlist, cut, from) ==
    LET Keep(jj) == InCutoff(xs, i, At(jlist, jj), cut)
    IN  Flatten(Stored([q \in 1..Len(jlist) |->
                    IF q - 1 >= from /\ Keep(q - 1) THEN <<q - 1>> ELSE <<>>]))

(* every distance and every parameter the anchor loops would hand to sqrt, *)
(* cos, sin or exp is a sample point                                       *)
Representable(cfg, cut, parameters) ==
    \A q \in 1..cfg.inum : \A r \in 1..Len(cfg.firstneigh[q]) :
        LET j == cfg.firstneigh[q][r]
            rsq == Rsq(cfg.x, q - 1, j)
        IN  InCutoff(cfg.x, q - 1, j, cut) =>
               /\ IsSquareQ(rsq)
               /\ \A k \in 1..Len(parameters) :
                     /\ \A c \in 1..Len(parameters[k]) : IsInt(parameters[k][c])
                     /\ Len(parameters[k]) >= 2 =>
                           IsQuarterTurn(RDiv(RMul(m_pi, sqrt(rsq)), parameters[k][2]))

(* PairNNAngular2::compute, lines 615-756: the pair loop, the triplet loop  *)
(* inside it, the accumulation of the symmetry functions                   *)
Collect2(xs, i, jlist, cut, parameters, nSymm) ==
    LET jnum == Len(jlist)
        short == Short(xs, i, jlist, cut, 0)
        nn == Len(short)
        J(n) == At(jlist, short[n])
        rij(n) == sqrt(Rsq(xs, i, J(n)))
        kpos(n) == Short(xs, i, jlist, cut, short[n] + 1)
        K(n, m) == At(jlist, kpos(n)[m])
        rik(n, m) == sqrt(Rsq(xs, i, K(n, m)))
        cosTheta(n, m) == RDiv(VDot(Del(xs, i, J(n)), Del(xs, i, K(n, m))),
                               RMul(rij(n), rik(n, m)))
        stored(n) == n <= nn /\ Len(kpos(n)) > 0
        radial(s) == RSumSeq(Stored([n \in 1..nn |->
                        G2(rij(n), At(parameters[s], 0), At(parameters[s], 1),
                           At(parameters[s], 2))]))
        angular(s) == RSumSeq(Flatten(Stored([n \in 1..nn |-> Stored([m \in 1..Len(kpos(n)) |->
                        G5(rij(n), rik(n, m), cosTheta(n, m),
                           At(parameters[s], 0), At(parameters[s], 1),
                           At(parameters[s], 2), At(parameters[s], 3))])])))
    IN  [Rij |-> Stored([n \in 1..nn |-> rij(n)]),
         drij |-> Stored([n \in 1..nn |-> Del(xs, i, J(n))]),
         tagsj |-> Stored([n \in 1..nn |-> J(n)]),
         tagsk |-> Stored([n \in 1..nn |-> Stored([m \in 1..Len(kpos(n)) |-> K(n, m)])]),
         Riks |-> Stored([n \in 1..(jnum - 1) |->
                     IF stored(n) THEN Stored([m \in 1..Len(kpos(n)) |-> rik(n, m)]) ELSE <<>>]),
         driks |-> Stored([n \in 1..(jnum - 1) |->
                     IF stored(n) THEN Stored([m \in 1..Len(kpos(n)) |-> Del(xs, i, K(n, m))])
                     ELSE <<>>]),
         cosThetas |-> Stored([n \in 1..(jnum - 1) |->
                     IF stored(n) THEN Stored([m \in 1..Len(kpos(n)) |-> cosTheta(n, m)])
                     ELSE <<>>]),
         neighbours |-> nn,
         inputVector |-> << Stored([s \in 1..nSymm |->
                              IF Len(parameters[s]) = 3 THEN radial(s)
                              ELSE IF Len(parameters[s]) = 4 THEN angular(s)
                              ELSE Zero]) >>]

(* lines 754-756 *)
Shift(inputVector, shift, means) ==
    IF shift = 1
    THEN << Stored([s \in 1..n_cols(inputVector) |-> RSub(inputVector[1][s], means[s])]) >>
    ELSE inputVector

(* a variant of the force loops: the last triplet of every (i, j) is left  *)
(* out                                                                     *)
ForceStepsLastLeftOut(parameters, nSymm, nbs, riks) ==
    Flatten(Stored([s \in 1..nSymm |->
        IF Len(parameters[s]) = 3
        THEN Stored([l \in 1..nbs |-> [kind |-> "pair", s |-> s - 1, l |-> l - 1, m |-> 0]])
        ELSE Flatten(Stored([l \in 1..(nbs - 1) |->
                 Stored([m \in 1..(Len(riks[l]) - 1) |->
                     [kind |-> "triplet", s |-> s - 1, l |-> l - 1, m |-> m - 1]])]))]))

(* the iterations of the force loops, lines 807-953, in the order they run *)
ForceSteps(parameters, nSymm, nbs, riks) ==
    Flatten(Stored([s \in 1..nSymm |->
        IF Len(parameters[s]) = 3
        THEN Stored([l \in 1..nbs |-> [kind |-> "pair", s |-> s - 1, l |-> l - 1, m |-> 0]])
        ELSE Flatten(Stored([l \in 1..(nbs - 1) |->
                 Stored([m \in 1..Len(riks[l]) |->
                     [kind |-> "triplet", s |-> s - 1, l |-> l - 1, m |-> m - 1]])]))]))

(***************************************************************************)
(* Variants of the accumulation statements below.  Each differs from the   *)
(* statement of the code in one respect; a property that says something    *)
(* about the statement fails when the variant is put in its place.         *)
(***************************************************************************)
(* the subtraction from the anchor's accumulator left out *)
DeductNothing(acc, v) ==
    acc

(* the neighbour receives the contribution twice *)
AddForceTwice(force, p, v) ==
    [force EXCEPT ![p + 1] = VAdd(VAdd(@, v), v)]

(* the anchor's energy is added twice *)
AddEnergyTwice(e, v) ==
    RAdd(RAdd(e, v), v)

(* the caller's energy is kept at entry *)
EnergyKept(e) ==
    e

(* the contribution is stored, not added *)
AssignForce(force, p, v) ==
    [force EXCEPT ![p + 1] = v]

(* f[p] += v *)
AddForce(force, p, v) ==
    [force EXCEPT ![p + 1] = VAdd(@, v)]

(* eng_vdwl = 0.0 at the top of compute *)
EnergyAtEntry(e) ==
    Zero

(* eng_vdwl += evdwl *)
AddEnergy(e, v) ==
    RAdd(e, v)

(***************************************************************************)
(* State                                                                   *)
(***************************************************************************)
VARIABLES
    style,                 \* "nn", "angular2" or "angular3": the class of the object
    pc,                    \* where the object's caller stands
    cutoff, allocated, setflag, ntypes, myStep,
    m_nLayers, m_nNodes, m_numberOfInputs, m_numberOfOutputs,
    m_weights, m_weightsTransposed, m_biases,
    m_numberOfSymmFunc, m_parameters, m_shift, m_allMeans,
    m_preActivations, m_activations, m_derivatives,
    x, f, tag, inum, ilist, firstneigh, eng_vdwl, eatom,
    ii, evdwl, inputVector, dEdG, step,
    Rij, drij, tagsj, Riks, driks, cosThetas, tagsk, neighbours,
    neighShort, NNderivatives,
    fx2, fx3j, fx3k, fxtmp,
    f0, e0, trained, evaluated,
    given,                 \* what the caller handed to the compute under way
    calls,                 \* what the compute calls that returned were handed and gave
    threads,               \* the evaluations under way side by side on the object
    inputGraph,            \* the file handed to read_file alone
    result,                \* what the latest command on the object raised or returned
    stats                  \* Finish::stats under way on the processes of the run

pairVars ==
    <<style, cutoff, allocated, setflag, ntypes>>

netVars ==
    <<m_nLayers, m_nNodes, m_numberOfInputs, m_numberOfOutputs,
      m_weights, m_weightsTransposed, m_biases,
      m_numberOfSymmFunc, m_parameters, m_shift, m_allMeans, trained>>

cacheVars ==
    <<m_preActivations, m_activations, m_derivatives>>

atomVars ==
    <<x, tag, inum, ilist, firstneigh, given, f0, e0>>

tableVars ==
    <<Rij, drij, tagsj, Riks, driks, cosThetas, tagsk, neighbours>>

wideVars ==
    <<neighShort, NNderivatives>>

accVars ==
    <<fx2, fx3j, fx3k>>

sideVars ==
    <<threads, inputGraph>>

vars ==
    <<pc, myStep, pairVars, netVars, cacheVars, atomVars, tableVars, wideVars,
      accVars, sideVars, fxtmp, f, eng_vdwl, eatom, ii, evdwl, inputVector, dEdG,
      step, evaluated, calls, result, stats>>

Styles ==
    {"nn", "angular2", "angular3"}

(* no Finish::stats under way *)
NoStats ==
    [at |-> "idle", data |-> <<>>, nhisto |-> 0, min |-> <<>>, max |-> <<>>,
     ave |-> <<>>, ntotal |-> 0, histo |-> <<>>]

(* a command that raised nothing and returned nothing *)
NoResult ==
    [call |-> "", args |-> <<>>, error |-> "", value |-> Zero]

(* The constructor sets cutoff = 10.0 and assigns none of the network      *)
(* members.  Their declarations are not among the sources at hand; they    *)
(* start at zero and empty here, and read_file of a training directory     *)
(* with both files stores all of them before any is read.  f0, e0          *)
(* (force store and energy at entry of compute), trained (the directory    *)
(* loaded) and evaluated (the network outputs of this call, in order) are  *)
(* history variables.                                                      *)
Constructed ==
    /\ pc = "constructed"
    /\ cutoff = N(10)
    /\ allocated = 0
    /\ setflag = {}
    /\ result = NoResult
    /\ stats = NoStats
    /\ myStep = 0
    /\ m_nLayers = 0 /\ m_nNodes = 0 /\ m_numberOfInputs = 0 /\ m_numberOfOutputs = 0
    /\ m_weights = <<>> /\ m_weightsTransposed = <<>> /\ m_biases = <<>>
    /\ m_numberOfSymmFunc = 0 /\ m_parameters = <<>> /\ m_shift = 0 /\ m_allMeans = <<>>
    /\ m_preActivations = <<>> /\ m_activations = <<>> /\ m_derivatives = <<>>
    /\ x = <<>> /\ f = <<>> /\ tag = <<>> /\ eatom = <<>> /\ eng_vdwl = Zero
    /\ inum = 0 /\ ilist = <<>> /\ firstneigh = <<>>
    /\ ii = 0 /\ evdwl = Zero /\ inputVector = <<>> /\ dEdG = <<>> /\ step = 0
    /\ Rij = <<>> /\ drij = <<>> /\ tagsj = <<>> /\ Riks = <<>> /\ driks = <<>>
    /\ cosThetas = <<>> /\ tagsk = <<>> /\ neighbours = 0
    /\ neighShort = <<>> /\ NNderivatives = <<>>
    /\ fx2 = V0 /\ fx3j = V0 /\ fx3k = V0 /\ fxtmp = V0
    /\ f0 = <<>> /\ e0 = Zero /\ trained = "" /\ evaluated = <<>>
    /\ given = <<>> /\ calls = <<>>
    /\ threads = <<>>

Init ==
    /\ style \in Styles
    /\ inputGraph = Missing
    /\ ntypes = 1
    /\ Constructed

(***************************************************************************)
(* coeff(): allocate, read_file, cutoff, setflag                           *)
(***************************************************************************)
(* What the extractions and getline calls of read_file obtain from         *)
(* graph.dat.  A stream that could not be opened is reported on std::cout  *)
(* and then read all the same: every extraction fails, the four header     *)
(* members keep the values they hold, and no line is read.                 *)
GraphStream(file) ==
    IF file.open THEN file
    ELSE [open |-> FALSE, m_nLayers |-> m_nLayers, m_nNodes |-> m_nNodes,
          m_numberOfInputs |-> m_numberOfInputs,
          m_numberOfOutputs |-> m_numberOfOutputs,
          weights |-> <<>>, biases |-> <<>>]

(* the same for parameters.dat: m_numberOfSymmFunc keeps its value and no  *)
(* record is read                                                          *)
ParametersStream(file) ==
    IF file.open THEN file
    ELSE [open |-> FALSE, m_numberOfSymmFunc |-> m_numberOfSymmFunc, records |-> <<>>]

(* what the graph.dat part of read_file stores in the object *)
StoreGraph(graph) ==
    \E L \in {graph.m_nLayers} :
        /\ m_nLayers' = L
        /\ m_nNodes' = graph.m_nNodes
        /\ m_numberOfInputs' = graph.m_numberOfInputs
        /\ m_numberOfOutputs' = graph.m_numberOfOutputs
        /\ m_weights' = graph.m_weights
        /\ m_weightsTransposed' = graph.m_weightsTransposed
        /\ m_biases' = graph.m_biases
        /\ m_preActivations' = Resize(m_preActivations, L + 2, <<>>)
        /\ m_activations' = Resize(m_activations, L + 2, <<>>)
        /\ m_derivatives' = Resize(m_derivatives, L + 2, <<>>)

(* the state read_file leaves when it runs to its end *)
Loaded(dir, graph) ==
    \E files \in {Dirs[dir]},
       params \in {ReadParameters(ParametersStream(Dirs[dir].parameters),
                                  m_parameters)} :
        /\ StoreGraph(graph)
        /\ IF style = "nn"
           THEN UNCHANGED <<m_numberOfSymmFunc, m_parameters, m_shift, m_allMeans>>
           ELSE /\ m_numberOfSymmFunc' = params.m_numberOfSymmFunc
                /\ m_parameters' = params.m_parameters
                /\ m_shift' = IF files.mean.open THEN 1 ELSE m_shift
                /\ m_allMeans' = m_allMeans \o files.mean.values
        /\ trained' = dir

(* the pairs of types whose setflag entry coeff() stores 1 in *)
SetAll ==
    {ab \in (1..ntypes) \X (1..ntypes) : ab[1] <= ab[2]}

(* what error->all hands to the caller *)
Raised(call, args, text) ==
    [call |-> call, args |-> args, error |-> text, value |-> Zero]

(* what a command that returns without a value hands to the caller *)
Passed(call, args) ==
    [call |-> call, args |-> args, error |-> "", value |-> Zero]

(* narg and the two type arguments of a coeff() that passes lines 997-1003 *)
AllTypes ==
    <<4, "*", "*">>

(* coeff(4, "*", "*", dir, cut) when read_file returns: lines 1012-1027,   *)
(* with the error of line 1026 when the loops have set no entry            *)
Coeff ==
    /\ pc = "constructed"
    /\ \E dir \in DirsOf(style), cut \in CutoffArgs, g \in Garbage :
          \E graph \in {ReadGraph(GraphStream(Dirs[dir].graph), m_biases, g)} :
              /\ ~graph.throws
              /\ Loaded(dir, graph)
              /\ cutoff' = cut
    /\ allocated' = 1
    /\ setflag' = SetAll
    /\ result' = IF Cardinality(SetAll) = 0
                 THEN Raised("coeff", AllTypes, "Incorrect args for pair coefficients")
                 ELSE Passed("coeff", AllTypes)
    /\ pc' = IF Cardinality(SetAll) = 0 THEN "rejected" ELSE "ready"
    /\ UNCHANGED <<myStep, atomVars, tableVars, wideVars, accVars, sideVars,
                   style, ntypes, f, eng_vdwl, eatom, ii, evdwl, inputVector,
                   dEdG, step, fxtmp, evaluated, calls, stats>>

(* coeff() when read_file ends the process: an exception of the matrix     *)
(* library, or a read past the end of weightsTemp that faults              *)
CoeffAbort ==
    /\ pc = "constructed"
    /\ \E dir \in DirsOf(style), g \in Garbage :
          \E graph \in {ReadGraph(GraphStream(Dirs[dir].graph), m_biases, g)} :
              /\ graph.throws \/ graph.ub
              /\ trained' = dir
    /\ allocated' = 1
    /\ pc' = "aborted"
    /\ UNCHANGED <<myStep, cacheVars, atomVars, tableVars, wideVars, accVars,
                   sideVars, style, cutoff, setflag, ntypes, m_nLayers,
                   m_nNodes, m_numberOfInputs, m_numberOfOutputs, m_weights,
                   m_weightsTransposed, m_biases, m_numberOfSymmFunc,
                   m_parameters, m_shift, m_allMeans, f, eng_vdwl, eatom, ii,
                   evdwl, inputVector, dEdG, step, fxtmp, evaluated, calls,
                   result, stats>>

(***************************************************************************)
(* PairNNAngular2::compute                                                 *)
(***************************************************************************)
(* What every compute() starts from: the caller's particles and lists.    *)
(* The first call gets a configuration as listed; a later call gets the    *)
(* same particles, their lists in any of the orders.                       *)
Enter(c, k, o) ==
    \E cfg \in {Handed(c, o)} :
        /\ IF calls = <<>> THEN o = Listed ELSE c = calls[1].given.c
        /\ Representable(cfg, cutoff, m_parameters)
        /\ given' = [c |-> c, k |-> k, o |-> o]
        /\ x' = cfg.x
        /\ tag' = Tags(Len(cfg.x))
        /\ inum' = cfg.inum
        /\ ilist' = cfg.ilist
        /\ firstneigh' = cfg.firstneigh
        /\ f' = PriorForce(k, Len(cfg.x))
        /\ f0' = PriorForce(k, Len(cfg.x))
        /\ e0' = PriorEnergy(k)
        /\ ii' = 0
        /\ evdwl' = Zero
        /\ evaluated' = <<>>

A2Begin ==
    /\ pc = "ready" /\ style = "angular2"
    /\ \E c \in DOMAIN Configurations, k \in 0..MaxPrior, o \in Orders :
          /\ Enter(c, k, o)
          /\ eng_vdwl' = EnergyAtEntry(PriorEnergy(k))
    /\ pc' = "collect"
    /\ UNCHANGED <<myStep, pairVars, netVars, cacheVars, tableVars, wideVars,
                   accVars, sideVars, eatom, inputVector, dEdG, step, fxtmp,
                   calls, result, stats>>

(* int i = ilist[ii] *)
Anchor ==
    At(ilist, ii)

(* lines 602-756 for anchor ilist[ii]; std::vector(jnum-1) throws for an   *)
(* empty neighbour list                                                    *)
A2Collect ==
    /\ pc = "collect" /\ style = "angular2"
    /\ IF Len(At(firstneigh, Anchor)) = 0
       THEN /\ pc' = "aborted"
            /\ UNCHANGED <<tableVars, inputVector>>
       ELSE \E c \in {Collect2(x, Anchor, At(firstneigh, Anchor), cutoff,
                               m_parameters, m_numberOfSymmFunc)} :
                /\ pc' = "network"
                /\ Rij' = c.Rij /\ drij' = c.drij /\ tagsj' = c.tagsj
                /\ Riks' = c.Riks /\ driks' = c.driks /\ cosThetas' = c.cosThetas
                /\ tagsk' = c.tagsk /\ neighbours' = c.neighbours
                /\ inputVector' = Shift(c.inputVector, m_shift, m_allMeans)
    /\ UNCHANGED <<myStep, pairVars, netVars, cacheVars, atomVars, wideVars,
                   accVars, sideVars, f, eng_vdwl, eatom, ii, evdwl, dEdG,
                   step, fxtmp, evaluated, calls, result, stats>>

(* a variant: network() runs once more, on a vector of zeros, between the  *)
(* anchor's network() and its backPropagation()                            *)
A2NetworkThenAnother ==
    /\ pc = "network" /\ style = "angular2"
    /\ IF networkSizesOk(m_weights, m_biases, m_nLayers, n_cols(inputVector))
       THEN \E out \in {network(m_weights, m_biases, m_nLayers, inputVector)} :
            \E other \in {network(m_weights, m_biases, m_nLayers,
                                   << Stored([s \in 1..n_cols(inputVector) |-> Zero]) >>)} :
            \E der \in {backPropagation(m_weightsTransposed, other.m_preActivations,
                                         m_nLayers)} :
                /\ m_preActivations' = other.m_preActivations
                /\ m_activations' = other.m_activations
                /\ m_derivatives' = der
                /\ evdwl' = out.value
                /\ eng_vdwl' = AddEnergy(eng_vdwl, out.value)
                /\ evaluated' = Append(evaluated, [anchor |-> Anchor, value |-> out.value])
                /\ dEdG' = At(der, 0)
                /\ fx2' = V0 /\ fx3j' = V0 /\ fx3k' = V0
                /\ step' = 1
                /\ pc' = "force"
       ELSE /\ pc' = "aborted"
            /\ UNCHANGED <<cacheVars, evdwl, eng_vdwl, evaluated, dEdG, accVars, step>>
    /\ UNCHANGED <<myStep, pairVars, netVars, atomVars, tableVars, wideVars,
                   sideVars, f, eatom, ii, inputVector, fxtmp, calls, result,
                   stats>>

(* lines 774-803: network, eng_vdwl, backPropagation, cleared accumulators *)
A2Network ==
    /\ pc = "network" /\ style = "angular2"
    /\ IF networkSizesOk(m_weights, m_biases, m_nLayers, n_cols(inputVector))
       THEN \E out \in {network(m_weights, m_biases, m_nLayers, inputVector)} :
            \E der \in {backPropagation(m_weightsTransposed, out.m_preActivations,
                                         m_nLayers)} :
                /\ m_preActivations' = out.m_preActivations
                /\ m_activations' = out.m_activations
                /\ m_derivatives' = der
                /\ evdwl' = out.value
                /\ eng_vdwl' = AddEnergy(eng_vdwl, out.value)
                /\ evaluated' = Append(evaluated, [anchor |-> Anchor, value |-> out.value])
                /\ dEdG' = At(der, 0)
                /\ fx2' = V0 /\ fx3j' = V0 /\ fx3k' = V0
                /\ step' = 1
                /\ pc' = "force"
       ELSE /\ pc' = "aborted"
            /\ UNCHANGED <<cacheVars, evdwl, eng_vdwl, evaluated, dEdG, accVars, step>>
    /\ UNCHANGED <<myStep, pairVars, netVars, atomVars, tableVars, wideVars,
                   sideVars, f, eatom, ii, inputVector, fxtmp, calls, result,
                   stats>>

Steps ==
    ForceSteps(m_parameters, m_numberOfSymmFunc, neighbours, Riks)

(* the anchor's tables, as the force loops read them *)
Tables ==
    [Rij |-> Rij, drij |-> drij, tagsj |-> tagsj, Riks |-> Riks, driks |-> driks,
     cosThetas |-> cosThetas, tagsk |-> tagsk, neighbours |-> neighbours]

(* fpair * drij of lines 821-835 *)
PairForce(t, dE, parameters, s, l) ==
    VScale(RDiv(RMul(RNeg(dE[1][s + 1]),
                     dG2dR(At(t.Rij, l), At(parameters[s + 1], 0),
                           At(parameters[s + 1], 1), At(parameters[s + 1], 2))),
                At(t.Rij, l)),
           At(t.drij, l))

(* fx2 -= fpair*drij, fx3j -= fj3, fx3k -= fk3 *)
Deduct(acc, v) ==
    VSub(acc, v)

(* one iteration of the loop of lines 824-842 *)
A2ForcePair ==
    /\ pc = "force" /\ style = "angular2"
    /\ step <= Len(Steps) /\ Steps[step].kind = "pair"
    /\ \E it \in {Steps[step]} :
       \E fp \in {PairForce(Tables, dEdG, m_parameters, it.s, it.l)} :
           /\ fx2' = Deduct(fx2, fp)
           /\ f' = AddForce(f, At(tagsj, it.l), fp)
    /\ step' = step + 1
    /\ UNCHANGED <<pc, myStep, pairVars, netVars, cacheVars, atomVars,
                   tableVars, wideVars, sideVars, eng_vdwl, eatom, ii, evdwl,
                   inputVector, dEdG, fx3j, fx3k, fxtmp, evaluated, calls,
                   result, stats>>

(* fj3 and fk3 of lines 880-920 *)
TripletForces(t, dE, parameters, s, l, m) ==
    LET d == dG5dR(At(t.drij, l), At(At(t.driks, l), m), At(t.Rij, l),
                   At(At(t.Riks, l), m), At(At(t.cosThetas, l), m),
                   At(parameters[s + 1], 0), At(parameters[s + 1], 1),
                   At(parameters[s + 1], 2), At(parameters[s + 1], 3))
    IN  [fj3 |-> VScale(RNeg(dE[1][s + 1]), d.dGij),
         fk3 |-> VScale(RNeg(dE[1][s + 1]), d.dGik)]

(* one iteration of the loop of lines 869-951.  A record without its four  *)
(* numbers is an empty std::vector, its element 0 lies at the null         *)
(* address, and the read of m_parameters[s][0] faults.                     *)
A2ForceTriplet ==
    /\ pc = "force" /\ style = "angular2"
    /\ step <= Len(Steps) /\ Steps[step].kind = "triplet"
    /\ \E it \in {Steps[step]} :
          IF Len(m_parameters[it.s + 1]) < 4
          THEN /\ pc' = "aborted"
               /\ UNCHANGED <<fx3j, fx3k, f, step>>
          ELSE \E t \in {TripletForces(Tables, dEdG, m_parameters, it.s, it.l, it.m)} :
                   /\ fx3j' = Deduct(fx3j, t.fj3)
                   /\ fx3k' = Deduct(fx3k, t.fk3)
                   /\ f' = AddForce(AddForce(f, At(tagsj, it.l), t.fj3),
                                    At(At(tagsk, it.l), it.m), t.fk3)
                   /\ step' = step + 1
                   /\ pc' = pc
    /\ UNCHANGED <<myStep, pairVars, netVars, cacheVars, atomVars, tableVars,
                   wideVars, sideVars, eng_vdwl, eatom, ii, evdwl,
                   inputVector, dEdG, fx2, fxtmp, evaluated, calls, result,
                   stats>>

(* lines 956-963: the anchor's accumulators go to f[i]; next anchor *)
A2Flush ==
    /\ pc = "force" /\ style = "angular2"
    /\ step > Len(Steps)
    /\ f' = AddForce(AddForce(f, Anchor, VAdd(fx3j, fx3k)), Anchor, fx2)
    /\ ii' = ii + 1
    /\ pc' = IF ii + 1 < inum THEN "collect" ELSE "end"
    /\ UNCHANGED <<myStep, pairVars, netVars, cacheVars, atomVars, tableVars,
                   wideVars, accVars, sideVars, eng_vdwl, eatom, evdwl,
                   inputVector, dEdG, step, fxtmp, evaluated, calls, result,
                   stats>>

(* myStep++ and return *)
A2End ==
    /\ pc = "end" /\ style = "angular2"
    /\ myStep' = myStep + 1
    /\ pc' = "done"
    /\ UNCHANGED <<pairVars, netVars, cacheVars, atomVars, tableVars,
                   wideVars, accVars, sideVars, f, eng_vdwl, eatom, ii,
                   evdwl, inputVector, dEdG, step, fxtmp, evaluated, calls,
                   result, stats>>

(***************************************************************************)
(* PairNN::compute                                                         *)
(***************************************************************************)
(* a variant of the rule of lines 172-180: a pair of different tags is     *)
(* skipped from both sides when the sum of the tags is even                *)
SkipPairOnEvenSum(itag, jtag, xi, xj) ==
    IF itag # jtag THEN (itag + jtag) % 2 = 0
    ELSE \/ xj[3] < xi[3]
         \/ xj[3] = xi[3] /\ xj[2] < xi[2]
         \/ xj[3] = xi[3] /\ xj[2] = xi[2] /\ xj[1] < xi[1]

(* lines 172-180: the half of the full list that is skipped *)
SkipPair(itag, jtag, xi, xj) ==
    IF itag > jtag THEN (itag + jtag) % 2 = 0
    ELSE IF itag < jtag THEN (itag + jtag) % 2 = 1
    ELSE \/ xj[3] < xi[3]
         \/ xj[3] = xi[3] /\ xj[2] < xi[2]
         \/ xj[3] = xi[3] /\ xj[2] = xi[2] /\ xj[1] < xi[1]

NNBegin ==
    /\ pc = "ready" /\ style = "nn"
    /\ \E c \in DOMAIN Configurations, k \in 0..MaxPrior, o \in Orders :
          /\ Enter(c, k, o)
          /\ eng_vdwl' = PriorEnergy(k)
    /\ fxtmp' = V0
    /\ step' = 0
    /\ pc' = "pairs"
    /\ UNCHANGED <<myStep, pairVars, netVars, cacheVars, tableVars, wideVars,
                   accVars, sideVars, eatom, inputVector, dEdG, calls,
                   result, stats>>

(* one iteration of the loop over jj, lines 166-206 *)
NNPair ==
    /\ pc = "pairs" /\ style = "nn"
    /\ step < Len(At(firstneigh, Anchor))
    /\ \E i \in {Anchor}, j \in {At(At(firstneigh, Anchor), step)} :
       \E del \in {VSub(VInt(At(x, i)), VInt(At(x, j)))} :
       \E rsq \in {VDot(del, del)} :
           IF SkipPair(At(tag, i), At(tag, j), At(x, i), At(x, j))
              \/ RGe(rsq, RMul(cutoff, cutoff))
           THEN /\ step' = step + 1
                /\ UNCHANGED <<pc, cacheVars, evdwl, f, fxtmp, evaluated>>
           ELSE IF networkSizesOk(m_weights, m_biases, m_nLayers, 1)
           THEN \E r \in {sqrt(rsq)} :
                \E out \in {network(m_weights, m_biases, m_nLayers, <<<<r>>>>)} :
                \E der \in {backPropagation(m_weightsTransposed,
                                             out.m_preActivations, m_nLayers)} :
                \E fpair \in {RDiv(RNeg(At(der, 0)[1][1]), r)} :
                    /\ m_preActivations' = out.m_preActivations
                    /\ m_activations' = out.m_activations
                    /\ m_derivatives' = der
                    /\ evdwl' = out.value
                    /\ evaluated' = Append(evaluated, [anchor |-> Anchor, value |-> out.value])
                    /\ fxtmp' = VAdd(fxtmp, VScale(fpair, del))
                    /\ f' = AddForce(f, j, VNeg(VScale(fpair, del)))
                    /\ step' = step + 1
                    /\ pc' = pc
           ELSE /\ pc' = "aborted"
                /\ UNCHANGED <<step, cacheVars, evdwl, f, fxtmp, evaluated>>
    /\ UNCHANGED <<myStep, pairVars, netVars, atomVars, tableVars, wideVars,
                   accVars, sideVars, eng_vdwl, eatom, ii, inputVector, dEdG,
                   calls, result, stats>>

(* lines 210-212, and the top of the next iteration over ii *)
NNFlush ==
    /\ pc = "pairs" /\ style = "nn"
    /\ step >= Len(At(firstneigh, Anchor))
    /\ f' = AddForce(f, Anchor, fxtmp)
    /\ fxtmp' = V0
    /\ step' = 0
    /\ ii' = ii + 1
    /\ pc' = IF ii + 1 < inum THEN "pairs" ELSE "done"
    /\ UNCHANGED <<myStep, pairVars, netVars, cacheVars, atomVars, tableVars,
                   wideVars, accVars, sideVars, eng_vdwl, eatom, evdwl,
                   inputVector, dEdG, evaluated, calls, result, stats>>

(***************************************************************************)
(* PairNNAngular3: cutoff and symmetry functions                           *)
(***************************************************************************)
(* double Fc(double R, double Rc, bool cut) *)
Fc3(R, Rc, cut) ==
    IF cut THEN (IF RLt(R, Rc) THEN FcFormula(R, Rc) ELSE Zero)
    ELSE FcFormula(R, Rc)

(* double dFcdR(double R, double Rc, bool cut) *)
dFcdR3(R, Rc, cut) ==
    IF cut THEN (IF RLt(R, Rc) THEN dFcdRFormula(R, Rc) ELSE Zero)
    ELSE dFcdRFormula(R, Rc)

G2_3(rij, eta, Rc, Rs) ==
    RMul(Gauss(eta, RMul(RSub(rij, Rs), RSub(rij, Rs))), Fc3(rij, Rc, FALSE))

dG2dR_3(R, eta, Rc, Rs) ==
    RDiv(RMul(RNeg(Gauss(eta, RMul(RSub(R, Rs), RSub(R, Rs)))),
              RAdd(RMul(RMul(RMul(Two, eta), RSub(Rs, R)), Fc3(R, Rc, FALSE)),
                   dFcdR3(R, Rc, FALSE))),
         R)

G4(rij, rik, rjk, cosTheta, eta, Rc, zeta, lambda) ==
    RMul(RMul(RMul(RMul(RMul(RPow(Two, 1 - Whole(zeta)),
                             RPow(RAdd(One, RMul(lambda, cosTheta)), Whole(zeta))),
                        Gauss(eta, RAdd(RAdd(RMul(rij, rij), RMul(rik, rik)),
                                        RMul(rjk, rjk)))),
                   Fc3(rij, Rc, FALSE)),
              Fc3(rik, Rc, FALSE)),
         Fc3(rjk, Rc, TRUE))

(* the pair and triplet loops of PairNNAngular3::compute, lines 327-423 *)
Collect3(xs, i, jlist, cut, parameters, nSymm) ==
    LET short == Short(xs, i, jlist, cut, 0)
        nn == Len(short)
        J(n) == At(jlist, short[n])
        rij(n) == sqrt(Rsq(xs, i, J(n)))
        kpos(n) == Short(xs, i, jlist, cut, short[n] + 1)
        K(n, m) == At(jlist, kpos(n)[m])
        rik(n, m) == sqrt(Rsq(xs, i, K(n, m)))
        rjk(n, m) == sqrt(Rsq(xs, J(n), K(n, m)))
        cosTheta(n, m) == RDiv(VDot(Del(xs, J(n), i), Del(xs, K(n, m), i)),
                               RMul(rij(n), rik(n, m)))
        radial(s) == RSumSeq(Stored([n \in 1..nn |->
                        G2_3(rij(n), At(parameters[s], 0), At(parameters[s], 1),
                             At(parameters[s], 2))]))
        angular(s) == RSumSeq(Flatten(Stored([n \in 1..nn |-> Stored([m \in 1..Len(kpos(n)) |->
                        G4(rij(n), rik(n, m), rjk(n, m), cosTheta(n, m),
                           At(parameters[s], 0), At(parameters[s], 1),
                           At(parameters[s], 2), At(parameters[s], 3))])])))
    IN  [neighbours |-> nn,
         js |-> Stored([n \in 1..nn |-> J(n)]),
         Rij |-> Stored([n \in 1..nn |-> rij(n)]),
         ks |-> Stored([n \in 1..nn |-> Stored([m \in 1..Len(kpos(n)) |-> K(n, m)])]),
         Rik |-> Stored([n \in 1..nn |-> Stored([m \in 1..Len(kpos(n)) |-> rik(n, m)])]),
         CosTheta |-> Stored([n \in 1..nn |-> Stored([m \in 1..Len(kpos(n)) |-> cosTheta(n, m)])]),
         inputVector |-> << Stored([s \in 1..nSymm |->
                              IF Len(parameters[s]) = 3 THEN radial(s)
                              ELSE IF Len(parameters[s]) = 4 THEN angular(s)
                              ELSE Zero]) >>]

(* the triplets of every anchor keep to the sample points of sqrt (rjk) *)
Representable3(cfg, cut) ==
    \A q \in 1..cfg.inum : \A r1, r2 \in 1..Len(cfg.firstneigh[q]) :
        LET j == cfg.firstneigh[q][r1]
            k == cfg.firstneigh[q][r2]
        IN  (r1 < r2 /\ InCutoff(cfg.x, q - 1, j, cut) /\ InCutoff(cfg.x, q - 1, k, cut))
               => IsSquareQ(Rsq(cfg.x, j, k))

Min(a, b) ==
    IF a < b THEN a ELSE b

(* the per-anchor tables after the loops of anchor ii have stored into     *)
(* them.  The loops index neighShort, Riks, cosThetas and tagsk with the   *)
(* neighbour counter; `fault` says that one of these, or eatom[i], lies    *)
(* past the end of its vector, and such a store is not part of the result. *)
Store3(c, i, at, jnum) ==
    LET nn == c.neighbours
        resized == [tagsk EXCEPT ![at + 1] = Resize(@, jnum, <<>>)]
        PushAt(table, values) ==
            Stored([q \in 1..Len(table) |->
                IF q <= nn THEN Append(table[q], values[q]) ELSE table[q]])
    IN  [fault |-> \/ nn > inum
                   \/ \E n \in 1..Min(nn, inum) : Len(c.ks[n]) > Len(resized[n])
                   \/ ~InRange(eatom, i),
         neighShort |-> PushAt(neighShort, c.js),
         Rij |-> [Rij EXCEPT ![at + 1] = @ \o c.Rij],
         Riks |-> PushAt(Riks, c.Rik),
         cosThetas |-> PushAt(cosThetas, c.CosTheta),
         tagsk |-> Stored([q \in 1..Len(resized) |-> Stored([m \in 1..Len(resized[q]) |->
                      IF q <= nn /\ m <= Len(c.ks[q])
                      THEN Append(resized[q][m], c.ks[q][m]) ELSE resized[q][m]])])]

(***************************************************************************)
(* PairNNAngular3::compute                                                 *)
(***************************************************************************)
Empties(n) ==
    Stored([q \in 1..n |-> <<>>])

(* lines 276-312; eatom is the caller's per-particle energy array, which   *)
(* exists only when per-particle energies were asked for                   *)
A3Begin ==
    /\ pc = "ready" /\ style = "angular3"
    /\ \E c \in DOMAIN Configurations, k \in 0..MaxPrior, o \in Orders,
          eflag_atom \in BOOLEAN :
          /\ Enter(c, k, o)
          /\ Representable3(Configurations[c], cutoff)
          /\ eng_vdwl' = EnergyAtEntry(PriorEnergy(k))
          /\ eatom' = IF eflag_atom
                      THEN Stored([p \in 1..Len(Configurations[c].x) |-> Zero]) ELSE <<>>
          /\ NNderivatives' = Empties(Configurations[c].inum)
          /\ neighShort' = Empties(Configurations[c].inum)
          /\ Rij' = Empties(Configurations[c].inum)
          /\ Riks' = Empties(Configurations[c].inum)
          /\ cosThetas' = Empties(Configurations[c].inum)
          /\ tagsk' = Empties(Configurations[c].inum)
    /\ pc' = "collect3"
    /\ UNCHANGED <<myStep, pairVars, netVars, cacheVars, accVars, sideVars,
                   inputVector, dEdG, step, drij, tagsj, driks, neighbours,
                   fxtmp, calls, result, stats>>

(* one iteration of the first loop over ii, lines 315-437 *)
A3Anchor ==
    /\ pc = "collect3" /\ style = "angular3"
    /\ \E c \in {Collect3(x, Anchor, At(firstneigh, Anchor), cutoff,
                          m_parameters, m_numberOfSymmFunc)} :
       \E i \in {Anchor}, t \in {Store3(c, Anchor, ii, Len(At(firstneigh, Anchor)))} :
           IF networkSizesOk(m_weights, m_biases, m_nLayers, n_cols(c.inputVector))
           THEN \E out \in {network(m_weights, m_biases, m_nLayers, c.inputVector)} :
                \E der \in {backPropagation(m_weightsTransposed,
                                             out.m_preActivations, m_nLayers)} :
                    /\ neighShort' = t.neighShort /\ Rij' = t.Rij /\ Riks' = t.Riks
                    /\ cosThetas' = t.cosThetas /\ tagsk' = t.tagsk
                    /\ neighbours' = c.neighbours
                    /\ inputVector' = c.inputVector
                    /\ m_preActivations' = out.m_preActivations
                    /\ m_activations' = out.m_activations
                    /\ m_derivatives' = der
                    /\ evdwl' = out.value
                    /\ eatom' = IF InRange(eatom, i)
                                THEN [eatom EXCEPT ![i + 1] = RAdd(@, out.value)]
                                ELSE eatom
                    /\ eng_vdwl' = AddEnergy(eng_vdwl, out.value)
                    /\ evaluated' = Append(evaluated, [anchor |-> Anchor, value |-> out.value])
                    /\ dEdG' = At(der, 0)
                    /\ NNderivatives' = [NNderivatives EXCEPT ![ii + 1] = At(der, 0)]
                    /\ ii' = IF ii + 1 < inum THEN ii + 1 ELSE 0
                    /\ pc' = IF ii + 1 < inum THEN "collect3" ELSE "force3"
           ELSE /\ pc' = "aborted"
                /\ UNCHANGED <<neighShort, Rij, Riks, cosThetas, tagsk, neighbours,
                               inputVector, cacheVars, evdwl, eatom, eng_vdwl,
                               evaluated, dEdG, NNderivatives, ii>>
    /\ UNCHANGED <<myStep, pairVars, netVars, atomVars, accVars, sideVars, f,
                   step, drij, tagsj, driks, fxtmp, calls, result, stats>>

(* the same iteration when a store past the end of a vector faults *)
A3AnchorFault ==
    /\ pc = "collect3" /\ style = "angular3"
    /\ LET jlist == At(firstneigh, Anchor)
           c == Collect3(x, Anchor, jlist, cutoff, m_parameters, m_numberOfSymmFunc)
       IN  Store3(c, Anchor, ii, Len(jlist)).fault
    /\ pc' = "aborted"
    /\ UNCHANGED <<myStep, pairVars, netVars, cacheVars, atomVars, tableVars,
                   wideVars, accVars, sideVars, f, eng_vdwl, eatom, ii,
                   evdwl, inputVector, dEdG, step, fxtmp, evaluated, calls,
                   result, stats>>

(* what the second loop over ii reads for anchor i = ilist[ii], lines      *)
(* 443-522: jnum is the size of neighShort[i], and neighShort[ii][jj],     *)
(* Rij[ii][jj], Riks[ii][jj] are read for every jj below it                *)
ForceReads3(i, at) ==
    LET jnum == Len(At(neighShort, i))
        symDiff == Stored([jj \in 1..Min(jnum, Len(At(Rij, at))) |->
                      Stored([s \in 1..Len(m_parameters) |->
                          IF Len(m_parameters[s]) = 3
                          THEN dG2dR_3(At(Rij, at)[jj], At(m_parameters[s], 0),
                                       At(m_parameters[s], 1), At(m_parameters[s], 2))
                          ELSE Zero])])
    IN  [fault |-> /\ Len(m_parameters) > 0
                   /\ \/ jnum > Len(At(Rij, at))
                      \/ jnum > Len(At(neighShort, at))
                      \/ /\ \E s \in 1..Len(m_parameters) : Len(m_parameters[s]) = 4
                         /\ jnum > Len(At(Riks, at)),
         symDiff |-> symDiff]

(* one iteration of the second loop over ii: nothing is stored *)
A3Force ==
    /\ pc = "force3" /\ style = "angular3"
    /\ ii' = IF ii + 1 < inum THEN ii + 1 ELSE ii
    /\ pc' = IF ii + 1 < inum THEN "force3" ELSE "end"
    /\ UNCHANGED <<myStep, pairVars, netVars, cacheVars, atomVars, tableVars,
                   wideVars, accVars, sideVars, f, eng_vdwl, eatom, evdwl,
                   inputVector, dEdG, step, fxtmp, evaluated, calls, result,
                   stats>>

(* the same iteration when a read past the end of a vector faults *)
A3ForceFault ==
    /\ pc = "force3" /\ style = "angular3"
    /\ ForceReads3(Anchor, ii).fault
    /\ pc' = "aborted"
    /\ UNCHANGED <<myStep, pairVars, netVars, cacheVars, atomVars, tableVars,
                   wideVars, accVars, sideVars, f, eng_vdwl, eatom, ii,
                   evdwl, inputVector, dEdG, step, fxtmp, evaluated, calls,
                   result, stats>>

(* myStep++ and return *)
A3End ==
    /\ pc = "end" /\ style = "angular3"
    /\ myStep' = myStep + 1
    /\ pc' = "done"
    /\ UNCHANGED <<pairVars, netVars, cacheVars, atomVars, tableVars,
                   wideVars, accVars, sideVars, f, eng_vdwl, eatom, ii,
                   evdwl, inputVector, dEdG, step, fxtmp, evaluated, calls,
                   result, stats>>

(***************************************************************************)
(* The caller takes eng_vdwl and f of the compute that returned and comes  *)
(* back with the next call.  The object's members stay as the call left    *)
(* them.                                                                   *)
(***************************************************************************)
(* what the call added to every particle's force *)
Added ==
    Stored([p \in 1..Len(f) |-> VSub(f[p], f0[p])])

(* a variant: between two calls the caller issues pair_coeff once more,    *)
(* with another cutoff                                                     *)
ReturnThroughCoeff ==
    /\ pc = "done"
    /\ Len(calls) + 1 < MaxCalls
    /\ calls' = Append(calls, [given |-> given, eng_vdwl |-> eng_vdwl, added |-> Added,
                              inputVector |-> inputVector])
    /\ cutoff' = RAdd(cutoff, One)
    /\ pc' = "ready"
    /\ UNCHANGED <<myStep, netVars, cacheVars, atomVars, tableVars, wideVars,
                   accVars, sideVars, style, allocated, setflag, ntypes, f,
                   eng_vdwl, eatom, ii, evdwl, inputVector, dEdG, step,
                   fxtmp, evaluated, result, stats>>

(* compute has returned; its results are noted and the next call may come *)
Return ==
    /\ pc = "done"
    /\ Len(calls) + 1 < MaxCalls
    /\ calls' = Append(calls, [given |-> given, eng_vdwl |-> eng_vdwl, added |-> Added,
                              inputVector |-> inputVector])
    /\ pc' = "ready"
    /\ UNCHANGED <<myStep, pairVars, netVars, cacheVars, atomVars, tableVars,
                   wideVars, accVars, sideVars, f, eng_vdwl, eatom, ii,
                   evdwl, inputVector, dEdG, step, fxtmp, evaluated, result,
                   stats>>

(***************************************************************************)
(* Two anchors evaluated side by side on one pair-style object.  Each      *)
(* evaluation builds its descriptor vector in locals (lines 615-756), then *)
(* calls network(inputVector), which stores the layers in the members      *)
(* m_preActivations and m_activations, then calls backPropagation(), which *)
(* reads m_preActivations and stores m_derivatives.  A step is one call.   *)
(***************************************************************************)
(* the descriptor vector of anchor a, as the pair and triplet loops and the *)
(* shift leave it                                                          *)
Descriptors(a) ==
    Shift(Collect2(x, a, At(firstneigh, a), cutoff, m_parameters,
                   m_numberOfSymmFunc).inputVector,
          m_shift, m_allMeans)

(* an evaluation that has not begun *)
Evaluation(a) ==
    [anchor |-> a, at |-> "begin", evdwl |-> Zero, dEdG |-> <<>>, inputVector |-> <<>>]

SideBegin ==
    /\ pc = "ready" /\ style = "angular2"
    /\ \E c \in DOMAIN Configurations :
       \E a, b \in 0..(Configurations[c].inum - 1) :
          /\ a < b
          /\ Len(At(Configurations[c].firstneigh, a)) > 0
          /\ Len(At(Configurations[c].firstneigh, b)) > 0
          /\ Enter(c, 0, Listed)
          /\ threads' = <<Evaluation(a), Evaluation(b)>>
    /\ eng_vdwl' = EnergyAtEntry(PriorEnergy(0))
    /\ pc' = "side"
    /\ UNCHANGED <<myStep, pairVars, netVars, cacheVars, tableVars, wideVars,
                   accVars, eatom, inputVector, dEdG, step, fxtmp, calls,
                   inputGraph, result, stats>>

(* the descriptor loops and evdwl = network(inputVector), lines 615-774 *)
SideNetwork ==
    /\ pc = "side"
    /\ \E t \in 1..Len(threads) :
          /\ threads[t].at = "begin"
          /\ \E row \in {Descriptors(threads[t].anchor)} :
                IF networkSizesOk(m_weights, m_biases, m_nLayers, n_cols(row))
                THEN \E out \in {network(m_weights, m_biases, m_nLayers, row)} :
                         /\ m_preActivations' = out.m_preActivations
                         /\ m_activations' = out.m_activations
                         /\ threads' = [threads EXCEPT ![t].at = "networked",
                                                       ![t].evdwl = out.value,
                                                       ![t].inputVector = row]
                         /\ pc' = pc
                ELSE /\ pc' = "aborted"
                     /\ UNCHANGED <<m_preActivations, m_activations, threads>>
    /\ UNCHANGED <<myStep, pairVars, netVars, atomVars, tableVars, wideVars,
                   accVars, m_derivatives, f, eng_vdwl, eatom, ii, evdwl,
                   inputVector, dEdG, step, fxtmp, evaluated, calls,
                   inputGraph, result, stats>>

(* arma::mat dEdG = backPropagation(), line 792 *)
SideBackPropagation ==
    /\ pc = "side"
    /\ \E t \in 1..Len(threads) :
          /\ threads[t].at = "networked"
          /\ \E der \in {backPropagation(m_weightsTransposed, m_preActivations,
                                          m_nLayers)} :
                /\ m_derivatives' = der
                /\ threads' = [threads EXCEPT ![t].at = "done",
                                              ![t].dEdG = At(der, 0)]
    /\ UNCHANGED <<pc, myStep, pairVars, netVars, atomVars, tableVars,
                   wideVars, accVars, m_preActivations, m_activations, f,
                   eng_vdwl, eatom, ii, evdwl, inputVector, dEdG, step,
                   fxtmp, evaluated, calls, inputGraph, result, stats>>

(***************************************************************************)
(* PairNN::read_file on its own, for graph files of every shape up to      *)
(* MaxSize: L hidden layers of N nodes, D inputs, one output, weight rows  *)
(* and bias rows of distinct numbers.  A file is complete (D + (L-1)*N + 1 *)
(* weight rows) or lacks its last weight row.                              *)
(***************************************************************************)
MaxSize ==
    3

GraphFile(L, nNodes, D, lacking, base) ==
    [open |-> TRUE, m_nLayers |-> L, m_nNodes |-> nNodes, m_numberOfInputs |-> D,
     m_numberOfOutputs |-> 1,
     weights |-> Stored([r \in 1..(D + (L - 1) * nNodes + 1 - lacking) |->
                    Stored([c \in 1..nNodes |-> N(base + 10 * r + c)])]),
     biases |-> Stored([r \in 1..(L + 1) |->
                    IF r <= L THEN Stored([c \in 1..nNodes |-> N(100 * r + c)])
                    ELSE <<N(base)>>])]

GraphFiles ==
    {GraphFile(L, nNodes, D, lacking, base) :
        L \in 1..MaxSize, nNodes \in 1..MaxSize, D \in 1..MaxSize,
        lacking \in 0..1, base \in 1..2}

InitReadFile ==
    /\ style = "nn"
    /\ inputGraph \in GraphFiles
    /\ ntypes = 1
    /\ Constructed

(* read_file runs to its end *)
ReadFile ==
    /\ pc = "constructed"
    /\ inputGraph.open
    /\ \E g \in Garbage :
          \E graph \in {ReadGraph(inputGraph, m_biases, g)} :
              /\ ~graph.throws
              /\ StoreGraph(graph)
    /\ pc' = "ready"
    /\ UNCHANGED <<myStep, pairVars, atomVars, tableVars, wideVars, accVars,
                   sideVars, m_numberOfSymmFunc, m_parameters, m_shift,
                   m_allMeans, f, eng_vdwl, eatom, ii, evdwl, inputVector,
                   dEdG, step, fxtmp, trained, evaluated, calls, result,
                   stats>>

(* read_file ends the process: an exception of the matrix library, or a    *)
(* read past the end of weightsTemp that faults                            *)
ReadFileAbort ==
    /\ pc = "constructed"
    /\ inputGraph.open
    /\ \E g \in Garbage :
          \E graph \in {ReadGraph(inputGraph, m_biases, g)} :
              graph.throws \/ graph.ub
    /\ pc' = "aborted"
    /\ UNCHANGED <<myStep, pairVars, netVars, cacheVars, atomVars, tableVars,
                   wideVars, accVars, sideVars, f, eng_vdwl, eatom, ii,
                   evdwl, inputVector, dEdG, step, fxtmp, evaluated, calls,
                   result, stats>>

NextReadFile ==
    \/ ReadFile
    \/ ReadFileAbort

SpecReadFile ==
    InitReadFile /\ [][NextReadFile]_vars

NextSideBySide ==
    \/ Coeff
    \/ CoeffAbort
    \/ SideBegin
    \/ SideNetwork
    \/ SideBackPropagation

SpecSideBySide ==
    Init /\ [][NextSideBySide]_vars

Next ==
    \/ Coeff
    \/ CoeffAbort
    \/ A2Begin
    \/ A2Collect
    \/ A2Network
    \/ A2ForcePair
    \/ A2ForceTriplet
    \/ A2Flush
    \/ A2End
    \/ NNBegin
    \/ NNPair
    \/ NNFlush
    \/ A3Begin
    \/ A3Anchor
    \/ A3AnchorFault
    \/ A3Force
    \/ A3ForceFault
    \/ A3End
    \/ Return

Spec ==
    Init /\ [][Next]_vars

(***************************************************************************)
(* The total energy of a configuration and its gradient, written out from  *)
(* the definitions of the symmetry functions and of the network, without   *)
(* the force code.  For PairNNAngular2 the energy of anchor i is the       *)
(* network applied to its (shifted) symmetry vector.                       *)
(***************************************************************************)
RECURSIVE VSumSeq(_)
VSumSeq(vs) ==
    IF vs = <<>> THEN V0 ELSE VAdd(Head(vs), VSumSeq(Tail(vs)))

SumF(force) ==
    VSumSeq(force)

(* the anchor's tables, inputs, network output and caches, recomputed *)
Anchor2(i) ==
    LET c == Collect2(x, i, At(firstneigh, i), cutoff, m_parameters,
                      m_numberOfSymmFunc)
        input == Shift(c.inputVector, m_shift, m_allMeans)
    IN  [c |-> c, input |-> input,
         out |-> network(m_weights, m_biases, m_nLayers, input)]

(* d(output)/d(input s), by the chain rule from the input layer upwards *)
Jacobian(W, pre, nLayers, nInputs) ==
    LET ScaleCols(M, row) ==
            Stored([a \in 1..n_rows(M) |->
                Stored([b \in 1..n_cols(M) |-> RMul(M[a][b], row[1][b])])])
        jac[l \in 0..(nLayers + 1)] ==
            IF l = 0
            THEN Stored([a \in 1..nInputs |->
                     Stored([b \in 1..nInputs |-> IF a = b THEN One ELSE Zero])])
            ELSE IF l <= nLayers
            THEN ScaleCols(MatMul(jac[l - 1], At(W, l - 1)), sigmoidDerivative(At(pre, l)))
            ELSE MatMul(jac[l - 1], At(W, l - 1))
    IN  jac[nLayers + 1]

(* dG2/dR of the radial function as compute() evaluates it *)
RadialSlope(R, eta, Rc, Rs) ==
    IF RLt(R, Rc)
    THEN RMul(Gauss(eta, RMul(RSub(R, Rs), RSub(R, Rs))),
              RAdd(RMul(RMul(RMul(RNeg(Two), eta), RSub(R, Rs)), FcFormula(R, Rc)),
                   dFcdRFormula(R, Rc)))
    ELSE Zero

(* the gradient of G5 with respect to the position of j: through rij and   *)
(* through cosTheta.  dj, dk are r_j - r_i and r_k - r_i.                  *)
AngularSlope(dj, dk, rij, rik, c, eta, Rc, zeta, lambda) ==
    LET gauss == Gauss(eta, RAdd(RMul(rij, rij), RMul(rik, rik)))
        base == RAdd(One, RMul(lambda, c))
        shape == RMul(RPow(Two, 1 - Whole(zeta)), RPow(base, Whole(zeta)))
        dShape == RMul(RMul(RMul(RPow(Two, 1 - Whole(zeta)), zeta), lambda),
                       RPow(base, Whole(zeta) - 1))
        viaR == RMul(RMul(RMul(shape, gauss), Fc(rik, Rc)),
                     RAdd(RMul(RMul(RMul(RNeg(Two), eta), rij), Fc(rij, Rc)),
                          dFcdR(rij, Rc)))
        viaC == RMul(RMul(RMul(dShape, gauss), Fc(rij, Rc)), Fc(rik, Rc))
    IN  VAdd(VScale(RDiv(viaR, rij), dj),
             VScale(viaC, VSub(VScale(RDiv(One, RMul(rij, rik)), dk),
                               VScale(RDiv(c, RMul(rij, rij)), dj))))

(* the gradient of the energy of anchor i with respect to the position of  *)
(* particle p                                                              *)
GradientOf(t, dE, i, p) ==
    LET Sign(q) == (IF q = p THEN 1 ELSE 0) - (IF i = p THEN 1 ELSE 0)
        radial(s) ==
            VSumSeq(Stored([n \in 1..t.neighbours |->
                VScale(RMul(N(Sign(t.tagsj[n])),
                            RDiv(RMul(dE[s][1],
                                      RadialSlope(t.Rij[n], At(m_parameters[s], 0),
                                                  At(m_parameters[s], 1),
                                                  At(m_parameters[s], 2))),
                                 t.Rij[n])),
                       t.drij[n])]))
        triplet(s, n, m) ==
            LET wrtJ == AngularSlope(t.drij[n], t.driks[n][m], t.Rij[n], t.Riks[n][m],
                                     t.cosThetas[n][m], At(m_parameters[s], 0),
                                     At(m_parameters[s], 1), At(m_parameters[s], 2),
                                     At(m_parameters[s], 3))
                wrtK == AngularSlope(t.driks[n][m], t.drij[n], t.Riks[n][m], t.Rij[n],
                                     t.cosThetas[n][m], At(m_parameters[s], 0),
                                     At(m_parameters[s], 1), At(m_parameters[s], 2),
                                     At(m_parameters[s], 3))
            IN  VScale(dE[s][1], VAdd(VScale(N(Sign(t.tagsj[n])), wrtJ),
                                      VScale(N(Sign(t.tagsk[n][m])), wrtK)))
        angular(s) ==
            VSumSeq(Flatten(Stored([n \in 1..t.neighbours |->
                Stored([m \in 1..Len(t.tagsk[n]) |-> triplet(s, n, m)])])))
    IN  VSumSeq(Stored([s \in 1..m_numberOfSymmFunc |->
            IF Len(m_parameters[s]) = 3 THEN radial(s) ELSE angular(s)]))

AnchorGradient(i, p) ==
    LET a == Anchor2(i)
    IN  GradientOf(a.c,
                   Jacobian(m_weights, a.out.m_preActivations, m_nLayers,
                            m_numberOfSymmFunc),
                   i, p)

Gradient(p) ==
    VSumSeq(Stored([q \in 1..inum |-> AnchorGradient(q - 1, p)]))

(* C1: when PairNNAngular2::compute has returned, the force it added to    *)
(* every particle is minus the gradient of the total energy with respect   *)
(* to that particle's position.                                            *)
C1_ForceIsMinusGradient ==
    (style = "angular2" /\ pc = "done") =>
        \A p \in 1..Len(f) : VSub(f[p], f0[p]) = VNeg(Gradient(p - 1))

(* a radial descriptor whose Rc lies below the pair cutoff, and a          *)
(* neighbour in between: G2 is zero there, dG2dR is not                    *)
C1_NeighbourBeyondRc ==
    /\ style = "angular2" /\ pc = "done"
    /\ cutoff = N(4) /\ x = <<<<0, 0, 0>>, <<3, 0, 0>>>>
    /\ eng_vdwl = RAdd(evaluated[1].value, evaluated[2].value)
    /\ f[1] # f0[1]

(***************************************************************************)
(* Newton's third law in the force loops                                   *)
(***************************************************************************)
(* the next step of the force loops is a triplet term of an angular record *)
TripletStep ==
    pc = "force" /\ style = "angular2" /\ step <= Len(Steps)
    /\ Steps[step].kind = "triplet"
    /\ Len(m_parameters[Steps[step].s + 1]) = 4

PairStep ==
    pc = "force" /\ style = "angular2" /\ step <= Len(Steps)
    /\ Steps[step].kind = "pair"

FlushStep ==
    pc = "force" /\ style = "angular2" /\ step > Len(Steps)

(* C2: in PairNNAngular2::compute every triplet term gives fj3 to f[j],    *)
(* fk3 to f[k] and -(fj3 + fk3) to the anchor's accumulators fx3j, fx3k,   *)
(* which the end of the anchor's iteration adds to f[i]; the three         *)
(* contributions of the term sum to the zero vector.                       *)
C2_TripletSumsToZero ==
    [][/\ TripletStep =>
            LET it == Steps[step]
                t == TripletForces(Tables, dEdG, m_parameters, it.s, it.l, it.m)
            IN  /\ VSub(SumF(f'), SumF(f)) = VAdd(t.fj3, t.fk3)
                /\ VAdd(VSub(fx3j', fx3j), VSub(fx3k', fx3k))
                      = VNeg(VAdd(t.fj3, t.fk3))
                /\ VAdd(VSub(SumF(f'), SumF(f)),
                        VAdd(VSub(fx3j', fx3j), VSub(fx3k', fx3k))) = V0
                /\ fx2' = fx2
       /\ FlushStep =>
            /\ VSub(At(f', Anchor), At(f, Anchor)) = VAdd(VAdd(fx3j, fx3k), fx2)
            /\ \A p \in 1..Len(f) : p # Anchor + 1 => f'[p] = f[p]]_vars

(* a triplet term with non-zero contributions has been applied, in a       *)
(* configuration where a particle is the j of one triplet and the k of     *)
(* another                                                                 *)
C2_TripletApplied ==
    /\ style = "angular2" /\ pc = "force"
    /\ fx3j # V0 /\ fx3k # V0
    /\ Len(x) = 4 /\ step > 1

(* C3: for every radial descriptor and in-cutoff pair (i, j) the vector    *)
(* added to f[j] is the negation of the vector accumulated for f[i], in    *)
(* PairNN::compute and PairNNAngular2::compute, and the sum of the forces  *)
(* over all particles is the same after compute as before it.              *)
C3_PairForcesOpposite ==
    [][
        /\ PairStep =>
             LET j == At(tagsj, Steps[step].l)
             IN  /\ VSub(At(f', j), At(f, j)) = VNeg(VSub(fx2', fx2))
                 /\ \A p \in 1..Len(f) : p # j + 1 => f'[p] = f[p]
                 /\ fx3j' = fx3j /\ fx3k' = fx3k
        /\ (pc = "pairs" /\ style = "nn" /\ step' = step + 1) =>
             LET jn == At(At(firstneigh, Anchor), step)
             IN  /\ VSub(At(f', jn), At(f, jn)) = VNeg(VSub(fxtmp', fxtmp))
                 /\ \A p \in 1..Len(f) : p # jn + 1 => f'[p] = f[p]
        /\ (pc = "pairs" /\ style = "nn" /\ ii' = ii + 1) =>
             VSub(At(f', Anchor), At(f, Anchor)) = fxtmp
        /\ (pc' = "done" /\ style \in {"nn", "angular2"}) =>
             SumF(f') = SumF(f0')]_vars

(* both styles have applied a non-zero radial pair force *)
C3_PairApplied ==
    \/ style = "angular2" /\ pc = "force" /\ fx2 # V0 /\ trained = "rr"
    \/ style = "nn" /\ pc = "pairs" /\ fxtmp # V0

(***************************************************************************)
(* The energy accumulator                                                  *)
(***************************************************************************)
Values(ev) ==
    Stored([n \in 1..Len(ev) |-> ev[n].value])

(* the network output of anchor i, recomputed from the configuration *)
AnchorEnergy(i) ==
    IF style = "angular2" THEN Anchor2(i).out.value
    ELSE network(m_weights, m_biases, m_nLayers,
                 Collect3(x, i, At(firstneigh, i), cutoff, m_parameters,
                          m_numberOfSymmFunc).inputVector).value

Computing ==
    style \in {"angular2", "angular3"}
    /\ pc \in {"collect", "network", "force", "end", "collect3", "force3", "done"}

(* C4: in PairNNAngular2::compute and PairNNAngular3::compute the network  *)
(* output of every anchor 0..inum-1 is added to eng_vdwl exactly once, by  *)
(* the step that evaluates the network for the anchor and by no step of    *)
(* the pair or triplet loops: at every point of the call the energy added  *)
(* so far is the sum of the outputs of the anchors evaluated so far, each  *)
(* anchor in turn and once, and at the return these are all the anchors.   *)
C4_EnergyOncePerAnchor ==
    Computing =>
        /\ Len(evaluated) <= inum
        /\ pc = "done" => Len(evaluated) = inum
        /\ \A n \in 1..Len(evaluated) :
              /\ evaluated[n].anchor = At(ilist, n - 1)
              /\ evaluated[n].value = AnchorEnergy(At(ilist, n - 1))
        /\ RSub(eng_vdwl, EnergyAtEntry(e0)) = RSumSeq(Values(evaluated))

(* both styles have returned from a configuration of several anchors, all  *)
(* with neighbours and triplets                                            *)
C4_SeveralAnchorsDone ==
    /\ Computing /\ pc = "done" /\ inum >= 3
    /\ eng_vdwl # Zero
    /\ \A n \in 1..inum : Len(firstneigh[n]) >= 2

(* C5 as stated: eng_vdwl after a compute call is eng_vdwl before the call *)
(* plus the energy computed by the call.                                   *)
C5_EnergyAddedToPrior ==
    (Computing /\ pc = "done") =>
        eng_vdwl = RAdd(e0, RSumSeq(Values(evaluated)))

(* C5: compute sets eng_vdwl to zero on entry and from then on only adds   *)
(* to it: at every point of the call eng_vdwl is the sum of the network    *)
(* outputs of the anchors evaluated so far, whatever it held before.       *)
C5_EnergyResetThenAdded ==
    Computing => eng_vdwl = RSumSeq(Values(evaluated))

(* a call that started from a non-zero eng_vdwl has returned *)
C5_PriorEnergyDiscarded ==
    /\ Computing /\ pc = "done"
    /\ e0 # Zero /\ eng_vdwl # Zero

(***************************************************************************)
(* The force store                                                         *)
(***************************************************************************)
(* what the force loops of anchor i hand to particle p, recomputed from    *)
(* the positions, the neighbour lists and the trained network; f is not    *)
(* read                                                                    *)
AnchorIncrement(i, p) ==
    LET a == Anchor2(i)
        t == a.c
        dE == At(backPropagation(m_weightsTransposed, a.out.m_preActivations,
                                 m_nLayers), 0)
        steps == ForceSteps(m_parameters, m_numberOfSymmFunc, t.neighbours, t.Riks)
        To(q, v) == IF q = p THEN v ELSE V0
        contribution(st) ==
            IF st.kind = "pair"
            THEN LET fp == PairForce(t, dE, m_parameters, st.s, st.l)
                 IN  VAdd(To(At(t.tagsj, st.l), fp), To(i, VNeg(fp)))
            ELSE LET tf == TripletForces(t, dE, m_parameters, st.s, st.l, st.m)
                 IN  VAdd(VAdd(To(At(t.tagsj, st.l), tf.fj3),
                               To(At(At(t.tagsk, st.l), st.m), tf.fk3)),
                          To(i, VNeg(VAdd(tf.fj3, tf.fk3))))
    IN  VSumSeq(Stored([n \in 1..Len(steps) |-> contribution(steps[n])]))

Increment(p) ==
    VSumSeq(Stored([q \in 1..inum |-> AnchorIncrement(q - 1, p)]))

(* p is no anchor and no neighbour within the cutoff of an anchor *)
Uninvolved(p) ==
    /\ p >= inum
    /\ \A q \in 1..inum : \A r \in 1..Len(firstneigh[q]) :
          firstneigh[q][r] = p => ~InCutoff(x, q - 1, p, cutoff)

(* C6: compute only adds into the force store: when it returns, f[p] is    *)
(* its value at entry plus an increment fixed by the positions, the lists  *)
(* and the network alone, for every particle p and every prior f; a        *)
(* particle that is neither an anchor nor a neighbour within the cutoff of *)
(* an anchor keeps its force.                                              *)
C6_ForceOnlyAddedTo ==
    pc = "done" =>
        /\ style = "angular2" =>
              \A p \in 1..Len(f) : f[p] = VAdd(f0[p], Increment(p - 1))
        /\ \A p \in 1..Len(f) : Uninvolved(p - 1) => f[p] = f0[p]

(* a call on a non-zero force store has returned: some particle has        *)
(* received a force, another is not involved                               *)
C6_AddedToPriorForce ==
    /\ style = "angular2" /\ pc = "done"
    /\ \A p \in 1..Len(f) : f0[p] # V0
    /\ \E p \in 1..Len(f) : f[p] # f0[p]
    /\ \E p \in 1..Len(f) : Uninvolved(p - 1)

(* anchor n has a neighbour within the cutoff for which the derivative of  *)
(* the energy with respect to a radial descriptor, times the derivative of *)
(* that descriptor with respect to the distance, is not zero               *)
HasDescriptorGradient(n) ==
    \E jj \in 1..Len(Rij[n]) : \E s \in 1..Len(m_parameters) :
        /\ Len(m_parameters[s]) = 3
        /\ NNderivatives[n][1][s] # Zero
        /\ dG2dR_3(Rij[n][jj], At(m_parameters[s], 0), At(m_parameters[s], 1),
                   At(m_parameters[s], 2)) # Zero

(* C7: after PairNNAngular3::compute on a configuration in which some      *)
(* anchor has a neighbour within the cutoff and a non-zero descriptor      *)
(* gradient, the force store has been incremented.                         *)
C7_Angular3WritesForces ==
    (style = "angular3" /\ pc = "done"
        /\ \E n \in 1..inum : HasDescriptorGradient(n))
    => \E p \in 1..Len(f) : f[p] # f0[p]

(* PairNNAngular3::compute has returned from such a configuration with the *)
(* energy set and every force as it was                                    *)
C7_Angular3ForcesUntouched ==
    /\ style = "angular3" /\ pc = "done"
    /\ \E n \in 1..inum : HasDescriptorGradient(n)
    /\ eng_vdwl # Zero
    /\ f = f0

(***************************************************************************)
(* Boundary cases                                                          *)
(***************************************************************************)
NoNeighbourInCutoff(i) ==
    \A r \in 1..Len(At(firstneigh, i)) :
        ~InCutoff(x, i, At(firstneigh, i)[r], cutoff)

(* C8: for an anchor with no neighbour within the cutoff, an empty         *)
(* neighbour list included, PairNNAngular2::compute feeds the network a    *)
(* vector of zeros, obtains the output-layer bias as network output and    *)
(* adds no force.                                                          *)
C8_IsolatedAnchor ==
    (style = "angular2" /\ InRange(ilist, ii) /\ NoNeighbourInCutoff(Anchor)) =>
        /\ pc # "aborted"
        /\ pc = "force" =>
              /\ inputVector = << Stored([s \in 1..m_numberOfSymmFunc |-> Zero]) >>
              /\ evdwl = At(m_biases, m_nLayers)[1][1]
              /\ Steps = <<>>
              /\ fx2 = V0 /\ fx3j = V0 /\ fx3k = V0

(* compute has stopped at an anchor whose neighbour list is empty *)
C8_EmptyListStops ==
    /\ style = "angular2" /\ pc = "aborted"
    /\ InRange(ilist, ii) /\ Len(At(firstneigh, Anchor)) = 0
    /\ ii = 2 /\ Len(evaluated) = 2

(* the input-to-output weights of a graph file without hidden layer: the   *)
(* first number of each of its first m_numberOfInputs weight rows          *)
FileWeights(file) ==
    Stored([r \in 1..file.m_numberOfInputs |-> <<file.weights[r][1]>>])

(* C9: with m_nLayers = 0, read_file leaves W[0] the D x 1 weights of the  *)
(* file and the bias of the file, network() returns input*W[0] + b[0],     *)
(* backPropagation() returns W[0] transposed, and the energy of an anchor  *)
(* is that linear combination of its descriptors.                          *)
C9_LinearNetwork ==
    (style = "angular2" /\ trained # "" /\ Dirs[trained].graph.open
        /\ Dirs[trained].graph.m_nLayers = 0) =>
        LET file == Dirs[trained].graph
            W == FileWeights(file)
            b == file.biases[1][1]
        IN  /\ pc # "constructed" =>
                  /\ m_weights = <<W>>
                  /\ m_biases = << << <<b>> >> >>
            /\ pc = "force" =>
                  /\ evdwl = RAdd(RSumSeq(Stored([s \in 1..Len(W) |->
                                     RMul(inputVector[1][s], W[s][1])])), b)
                  /\ dEdG = Transpose(W)

(* read_file has returned from a graph file without hidden layer with W[0] *)
(* taken from past the last weight row                                     *)
C9_WeightsFromPastTheEnd ==
    /\ style = "angular2" /\ pc = "ready" /\ trained = "lin"
    /\ m_weights = << << <<N(9)>>, <<N(9)>> >> >>

(* C10: a neighbour at distance exactly Rc contributes exactly zero to     *)
(* every radial descriptor with that Rc, in PairNNAngular2 and in          *)
(* PairNNAngular3: its G2 term is zero, and the descriptor is the sum of   *)
(* the terms of the other neighbours.                                      *)
C10_ZeroAtCutoffRadius ==
    /\ (style = "angular2" /\ pc = "network" /\ m_shift = 0) =>
          \A s \in 1..m_numberOfSymmFunc : Len(m_parameters[s]) = 3 =>
              LET eta == At(m_parameters[s], 0)
                  Rc == At(m_parameters[s], 1)
                  Rs == At(m_parameters[s], 2)
              IN  /\ \A n \in 1..neighbours :
                        Rij[n] = Rc => G2(Rij[n], eta, Rc, Rs) = Zero
                  /\ inputVector[1][s] = RSumSeq(Stored([n \in 1..neighbours |->
                        IF Rij[n] = Rc THEN Zero ELSE G2(Rij[n], eta, Rc, Rs)]))
    /\ (style = "angular3" /\ pc \in {"collect3", "force3"} /\ evaluated # <<>>) =>
          LET a == evaluated[Len(evaluated)].anchor
              c == Collect3(x, a, At(firstneigh, a), cutoff, m_parameters,
                            m_numberOfSymmFunc)
          IN  \A s \in 1..m_numberOfSymmFunc : Len(m_parameters[s]) = 3 =>
                  LET eta == At(m_parameters[s], 0)
                      Rc == At(m_parameters[s], 1)
                      Rs == At(m_parameters[s], 2)
                  IN  /\ \A n \in 1..c.neighbours :
                            c.Rij[n] = Rc => G2_3(c.Rij[n], eta, Rc, Rs) = Zero
                      /\ inputVector[1][s] = RSumSeq(Stored([n \in 1..c.neighbours |->
                            IF c.Rij[n] = Rc THEN Zero
                            ELSE G2_3(c.Rij[n], eta, Rc, Rs)]))

(* an anchor with one neighbour below Rc and one at distance Rc exactly    *)
(* has had its descriptors computed                                        *)
C10_NeighbourAtRc ==
    /\ \/ style = "angular2" /\ pc = "network"
       \/ style = "angular3" /\ pc = "collect3" /\ ii = 1
    /\ x = <<<<0, 0, 0>>, <<1, 0, 0>>, <<2, 0, 0>>>>
    /\ cutoff = N(4) /\ m_parameters[1][2] = N(2)
    /\ inputVector # <<>> /\ inputVector[1][1] # Zero

(***************************************************************************)
(* Missing and inconsistent parameter files                                *)
(***************************************************************************)
(* the training directories that lack graph.dat or parameters.dat *)
MissingFileDirs ==
    {d \in DOMAIN Dirs : ~Dirs[d].graph.open \/ ~Dirs[d].parameters.open}

(* compute() has been entered *)
InCompute ==
    pc \in {"collect", "network", "force", "end", "pairs", "collect3", "force3", "done"}

(* C11: if graph.dat or parameters.dat cannot be opened, read_file aborts  *)
(* setup: coeff never completes on such a directory and compute never runs *)
(* on parameters that were not read.                                       *)
C11_MissingFileAbortsSetup ==
    (trained \in MissingFileDirs /\ (style = "nn" => ~Dirs[trained].graph.open)) =>
        /\ pc # "ready"
        /\ ~InCompute

(* setup has completed without parameters.dat and compute is collecting    *)
(* descriptors with no descriptor record and a network that was read       *)
C11_ComputeWithoutParameters ==
    /\ trained = "nopar" /\ style = "angular2" /\ pc = "collect"
    /\ m_parameters = <<>> /\ m_numberOfSymmFunc = 0
    /\ m_weights # <<>>

(* the weight rows the header of a graph file asks for *)
RowsRequired(file) ==
    IF file.m_nLayers = 0 THEN file.m_numberOfInputs
    ELSE file.m_numberOfInputs + (file.m_nLayers - 1) * file.m_nNodes
         + file.m_numberOfOutputs

(* both files are there and do not agree: the descriptor count is not the  *)
(* input width, weight rows are missing, or the records are not as many as *)
(* declared (PairNN reads graph.dat only)                                  *)
Inconsistent(d, st) ==
    LET graph == Dirs[d].graph
        parameters == Dirs[d].parameters
    IN  /\ graph.open
        /\ \/ Len(graph.weights) < RowsRequired(graph)
           \/ /\ st # "nn" /\ parameters.open
              /\ \/ parameters.m_numberOfSymmFunc # graph.m_numberOfInputs
                 \/ Len(parameters.records) # parameters.m_numberOfSymmFunc

(* C12: read_file rejects inconsistent parameter files at load time: when  *)
(* the descriptor count differs from the network input width, when weight  *)
(* rows are missing, or when the descriptor records are not as many as     *)
(* declared, setup does not complete and compute does not run.             *)
C12_InconsistentFilesRejected ==
    (trained # "" /\ Inconsistent(trained, style)) =>
        /\ pc # "ready"
        /\ ~InCompute

(* compute has returned an energy from a descriptor vector whose second    *)
(* record was never read                                                   *)
C12_EnergyFromMissingRecord ==
    /\ trained = "few" /\ style = "angular2" /\ pc = "done"
    /\ Len(m_parameters) = 2 /\ m_parameters[2] = <<>>
    /\ eng_vdwl # Zero

(***************************************************************************)
(* A compute call that fails part of the way                               *)
(***************************************************************************)
(* compute() was entered and has stopped on an error *)
ComputeFailed ==
    pc = "aborted" /\ x # <<>>

(* C13: when compute fails while processing some anchor, the contributions *)
(* of the anchors already processed are not left in the shared             *)
(* accumulators: f and eng_vdwl are as they were before the call.          *)
C13_NothingCommittedOnError ==
    ComputeFailed => (f = f0 /\ eng_vdwl = e0)

(* the call has failed at its third anchor, with the energies of the first *)
(* two in eng_vdwl (zero before the call) and their forces in f            *)
C13_PartialResultsLeft ==
    /\ ComputeFailed /\ style = "angular2"
    /\ ii = 2 /\ Len(evaluated) = 2
    /\ e0 = Zero /\ eng_vdwl # Zero
    /\ eng_vdwl = RSumSeq(Values(evaluated))
    /\ f # f0

(***************************************************************************)
(* Evaluations side by side                                                *)
(***************************************************************************)
(* what the evaluation obtains when it runs with no other in between *)
Alone(inputRow) ==
    LET out == network(m_weights, m_biases, m_nLayers, inputRow)
    IN  [evdwl |-> out.value,
         dEdG |-> At(backPropagation(m_weightsTransposed, out.m_preActivations,
                                     m_nLayers), 0)]

BothDone ==
    pc = "side" /\ \A t \in 1..Len(threads) : threads[t].at = "done"

(* C14: two anchors evaluated on the same object, their network() and      *)
(* backPropagation() calls interleaved in any order: each obtains the      *)
(* energy and the descriptor gradient it obtains when run alone.           *)
C14_EvaluationsIndependent ==
    BothDone =>
        \A t \in 1..Len(threads) :
            /\ threads[t].evdwl = Alone(threads[t].inputVector).evdwl
            /\ threads[t].dEdG = Alone(threads[t].inputVector).dEdG

(* both evaluations have ended, their descriptor vectors differ, and the   *)
(* first has the gradient of the second's descriptors: its                 *)
(* backPropagation() read the layers the second's network() had stored     *)
C14_GradientOfTheOther ==
    /\ BothDone
    /\ threads[1].inputVector # threads[2].inputVector
    /\ threads[1].evdwl = Alone(threads[1].inputVector).evdwl
    /\ threads[1].dEdG # Alone(threads[1].inputVector).dEdG
    /\ threads[1].dEdG = Alone(threads[2].inputVector).dEdG

(***************************************************************************)
(* C15.  Once coeff() has returned, no step of any compute call, and no    *)
(* return to the caller between two calls, changes the weights, the        *)
(* transposed weights, the biases, the descriptor records with their       *)
(* count, the feature means with the shift flag, or the cutoff.            *)
(***************************************************************************)
C15_ParametersKept ==
    [][
        pc # "constructed" =>
            /\ m_weights' = m_weights
            /\ m_weightsTransposed' = m_weightsTransposed
            /\ m_biases' = m_biases
            /\ m_parameters' = m_parameters
            /\ m_numberOfSymmFunc' = m_numberOfSymmFunc
            /\ m_allMeans' = m_allMeans
            /\ m_shift' = m_shift
            /\ cutoff' = cutoff
    ]_vars

(* a second compute call on the object has returned, after both calls      *)
(* evaluated the network and added forces                                  *)
C15_SecondCallReturned ==
    /\ pc = "done" /\ style = "angular2"
    /\ Len(calls) = 1 /\ myStep = 2
    /\ m_weights # <<>> /\ m_allMeans # <<>>
    /\ given.o # calls[1].given.o
    /\ \E p \in 1..Len(f) : Added[p] # V0

(***************************************************************************)
(* C16.  A compute call on the same particles, with the anchors of ilist   *)
(* or the neighbours inside the lists in another order, reports the same   *)
(* total energy and adds the same force to every particle as the call      *)
(* before it.                                                              *)
(***************************************************************************)
C16_OrderImmaterial ==
    (pc = "done" /\ calls # <<>> /\ given.o # calls[1].given.o) =>
        /\ Added = calls[1].added
        /\ style # "nn" => eng_vdwl = calls[1].eng_vdwl

(* PairNNAngular2::compute has returned from three anchors with two        *)
(* in-cutoff neighbours each, taken in another order than in the call      *)
(* before, and has added radial and angular forces                         *)
C16_ReorderedCallReturned ==
    /\ pc = "done" /\ style = "angular2" /\ calls # <<>>
    /\ given.o.anchors /\ given.o.lists
    /\ ~calls[1].given.o.anchors /\ ~calls[1].given.o.lists
    /\ inum = 3
    /\ \A q \in 1..inum : Len(Short(x, q - 1, firstneigh[q], cutoff, 0)) = 2
    /\ \E s \in 1..Len(m_parameters) : Len(m_parameters[s]) = 4
    /\ \E p \in 1..Len(f) : Added[p] # V0

(***************************************************************************)
(* C17.  A compute call on the positions and neighbour lists of the call   *)
(* before it, whatever that call left in the object and whatever force and *)
(* energy the caller starts it from, ends with the same descriptor vector  *)
(* for its last anchor, reports the same eng_vdwl (PairNNAngular2 and      *)
(* PairNNAngular3) and adds the same force to every particle.              *)
(***************************************************************************)
C17_SameInputSameResult ==
    (pc = "done" /\ calls # <<>> /\ given.c = calls[1].given.c
                 /\ given.o = calls[1].given.o) =>
        /\ inputVector = calls[1].inputVector
        /\ Added = calls[1].added
        /\ style # "nn" => eng_vdwl = calls[1].eng_vdwl

(* PairNNAngular2::compute has returned a second time from the same lists, *)
(* started from another force and energy than the first time, with the     *)
(* caches of the first call in place and forces added                      *)
C17_SameInputTwice ==
    /\ pc = "done" /\ style = "angular2" /\ calls # <<>>
    /\ given.c = calls[1].given.c /\ given.o = calls[1].given.o
    /\ given.k # calls[1].given.k
    /\ myStep = 2
    /\ m_nLayers > 0
    /\ \E p \in 1..Len(f) : Added[p] # V0

(***************************************************************************)
(* C18.  When the force loops of PairNNAngular2::compute run for an        *)
(* anchor, the triplets stored while the descriptors were summed           *)
(* (tagsj[l], tagsk[l][m]) are the pairs of neighbours at list positions   *)
(* jj < kk that both lie inside the cutoff, each stored once, and for every *)
(* angular descriptor the force loops visit these same triplets, each      *)
(* once: n(n-1)/2 of them for n neighbours inside the cutoff.              *)
(***************************************************************************)
(* the list positions of the anchor's neighbours inside the cutoff *)
Inside ==
    {jj \in 0..(Len(At(firstneigh, Anchor)) - 1) :
        RLt(Rsq(x, Anchor, At(At(firstneigh, Anchor), jj)), RMul(cutoff, cutoff))}

(* the particles (j, k) of every pair of such positions jj < kk *)
PairsInside ==
    {<<At(At(firstneigh, Anchor), jj), At(At(firstneigh, Anchor), kk)>> :
        <<jj, kk>> \in {p \in Inside \X Inside : p[1] < p[2]}}

(* the triplets the descriptor loops stored, in the order they were stored *)
TripletsSummed ==
    Flatten(Stored([l \in 1..Len(tagsk) |->
        Stored([m \in 1..Len(tagsk[l]) |-> <<tagsj[l], tagsk[l][m]>>])]))

(* the triplets the force loops visit for descriptor s, in order *)
TripletsForced(s) ==
    LET visits == SelectSeq(Steps, LAMBDA it : it.kind = "triplet" /\ it.s = s)
    IN  Stored([n \in 1..Len(visits) |->
            <<At(tagsj, visits[n].l), At(At(tagsk, visits[n].l), visits[n].m)>>])

Range(seq) ==
    {seq[n] : n \in 1..Len(seq)}

C18_TripletsOnceInBothPhases ==
    (style = "angular2" /\ pc = "force") =>
        \E n \in {Cardinality(Inside)} :
            /\ neighbours = n
            /\ Len(TripletsSummed) = (n * (n - 1)) \div 2
            /\ Range(TripletsSummed) = PairsInside
            /\ Cardinality(PairsInside) = (n * (n - 1)) \div 2
            /\ \A s \in 0..(m_numberOfSymmFunc - 1) :
                  Len(m_parameters[s + 1]) = 4 =>
                      /\ Len(TripletsForced(s)) = (n * (n - 1)) \div 2
                      /\ Range(TripletsForced(s)) = PairsInside

(* the force loops have run to their end for an anchor with three          *)
(* neighbours inside the cutoff and an angular descriptor                  *)
C18_ThreeTriplets ==
    /\ style = "angular2" /\ pc = "force"
    /\ Cardinality(Inside) = 3
    /\ \E s \in 1..m_numberOfSymmFunc : Len(m_parameters[s]) = 4
    /\ step > Len(Steps)
    /\ fx3j # V0

(***************************************************************************)
(* C19.  Whenever backPropagation() has run, m_derivatives holds: 1 for    *)
(* the output layer; for every hidden layer l = L..1 the error of layer    *)
(* l+1 times the transpose of W[l], multiplied element by element with the *)
(* sigmoid's derivative at the cached pre-activation of layer l; and for   *)
(* layer 0, which is returned, the error of layer 1 times the transpose of *)
(* W[0], a row with one component per input of the network, for L = 0 as   *)
(* well as for L > 0.                                                      *)
(***************************************************************************)
(* exp(-z) / (1 + exp(-z))^2 *)
SigmoidSlope(z) ==
    RDiv(exp(RNeg(z)), RMul(RAdd(One, exp(RNeg(z))), RAdd(One, exp(RNeg(z)))))

RECURSIVE Error(_)
Error(l) ==
    IF l = m_nLayers + 1 THEN << <<One>> >>
    ELSE LET back == MatMul(Error(l + 1), Transpose(At(m_weights, l)))
         IN  IF l = 0 THEN back
             ELSE << Stored([j \in 1..n_cols(back) |->
                        RMul(back[1][j], SigmoidSlope(At(m_preActivations, l)[1][j]))]) >>

BackPropagated ==
    Len(m_derivatives) = m_nLayers + 2 /\ At(m_derivatives, 0) # <<>>

C19_BackPropagation ==
    BackPropagated =>
        /\ \A l \in 0..(m_nLayers + 1) : At(m_derivatives, l) = Error(l)
        /\ n_rows(At(m_derivatives, 0)) = 1
        /\ n_cols(At(m_derivatives, 0)) = n_cols(At(m_preActivations, 0))
        /\ style # "nn" => n_cols(At(m_derivatives, 0)) = m_numberOfSymmFunc
        /\ pc = "force" => dEdG = Error(0)

(* backPropagation() has run through a hidden layer and returned a row     *)
(* with two different non-zero components                                  *)
C19_ThroughHiddenLayer ==
    /\ BackPropagated /\ m_nLayers = 1 /\ pc = "force"
    /\ n_cols(dEdG) = 2
    /\ dEdG[1][1] # Zero /\ dEdG[1][2] # Zero /\ dEdG[1][1] # dEdG[1][2]
    /\ At(m_preActivations, 1) # << <<Zero, Zero>> >>

(***************************************************************************)
(* C20.  Whenever network() has run, the input layer's activation is its   *)
(* pre-activation (the input vector), every hidden layer l+1 = 1..L has    *)
(* the pre-activation activation[l]*W[l] + b[l] and its sigmoid            *)
(* 1/(1+exp(-x)) as activation, the output layer has the pre-activation    *)
(* activation[L]*W[L] + b[L] as its activation, and the value returned is  *)
(* that one number.                                                        *)
(***************************************************************************)
Squash(z) ==
    RDiv(One, RAdd(One, exp(RNeg(z))))

(* row * W + b, written out component by component *)
Affine(row, W, b) ==
    << Stored([j \in 1..n_cols(W) |->
          RAdd(RSumSeq(Stored([q \in 1..n_rows(W) |-> RMul(row[1][q], W[q][j])])),
               b[1][j])]) >>

Networked ==
    Len(m_activations) = m_nLayers + 2 /\ At(m_activations, 0) # <<>>

C20_Network ==
    Networked =>
        /\ At(m_activations, 0) = At(m_preActivations, 0)
        /\ (pc = "force" \/ (style = "angular3" /\ evaluated # <<>>)) =>
              At(m_preActivations, 0) = inputVector
        /\ \A l \in 0..m_nLayers :
              At(m_preActivations, l + 1) =
                  Affine(At(m_activations, l), At(m_weights, l), At(m_biases, l))
        /\ \A l \in 1..m_nLayers :
              /\ n_rows(At(m_activations, l)) = 1
              /\ n_cols(At(m_activations, l)) = n_cols(At(m_preActivations, l))
              /\ \A j \in 1..n_cols(At(m_preActivations, l)) :
                    At(m_activations, l)[1][j] = Squash(At(m_preActivations, l)[1][j])
        /\ At(m_activations, m_nLayers + 1) = At(m_preActivations, m_nLayers + 1)
        /\ evaluated # <<>> =>
              /\ evdwl = At(m_activations, m_nLayers + 1)[1][1]
              /\ evaluated[Len(evaluated)].value = evdwl

(* network() has run through a hidden layer whose two nodes have different *)
(* activations, neither of them one half, and returned a value other than  *)
(* the output bias                                                         *)
C20_HiddenLayerEvaluated ==
    /\ Networked /\ m_nLayers = 1 /\ evaluated # <<>>
    /\ n_cols(At(m_activations, 1)) = 2
    /\ At(m_activations, 1)[1][1] # At(m_activations, 1)[1][2]
    /\ At(m_activations, 1)[1][1] # Half /\ At(m_activations, 1)[1][2] # Half
    /\ evdwl # At(m_biases, 1)[1][1]

(***************************************************************************)
(* C21.  In every state after a network() call the cached pre-activations  *)
(* and activations of all layers 0..L+1 are those of one and the same      *)
(* input, and m_derivatives is backPropagation() of that cache.  In        *)
(* compute the cache an anchor's backPropagation() read is the one its own *)
(* network() wrote: the cached input is the anchor's descriptor vector,    *)
(* the energy and the gradient used for its forces are those of that       *)
(* vector.                                                                 *)
(***************************************************************************)
CacheOfOneCall ==
    \E out \in {network(m_weights, m_biases, m_nLayers, At(m_preActivations, 0))} :
        /\ m_preActivations = out.m_preActivations
        /\ m_activations = out.m_activations
        /\ BackPropagated =>
              m_derivatives = backPropagation(m_weightsTransposed, out.m_preActivations,
                                              m_nLayers)

(* the anchor's evaluation is the latest one *)
AnchorEvaluated ==
    \/ style = "angular2" /\ pc = "force"
    \/ style = "angular3" /\ pc \in {"collect3", "force3"} /\ evaluated # <<>>
                          /\ Len(evaluated) < inum

C21_BackwardReadsOwnForward ==
    /\ Networked => CacheOfOneCall
    /\ AnchorEvaluated =>
          /\ Networked /\ BackPropagated
          /\ At(m_preActivations, 0) = inputVector
          /\ evdwl = Alone(inputVector).evdwl
          /\ dEdG = Alone(inputVector).dEdG
          /\ dEdG = At(m_derivatives, 0)

(* the second anchor of a call has been evaluated on a descriptor vector   *)
(* other than the first anchor's, through a hidden layer                   *)
C21_SecondAnchorEvaluated ==
    /\ style = "angular2" /\ pc = "force" /\ m_nLayers = 1
    /\ Len(evaluated) = 2
    /\ evaluated[1].value # evaluated[2].value
    /\ dEdG # << <<Zero, Zero>> >>

(***************************************************************************)
(* C22.  read_file on a file whose header declares L >= 1 hidden layers,   *)
(* N nodes, D inputs and one output, with D + (L-1)*N + 1 weight rows of N *)
(* values, runs to its end and leaves W[0] of D x N, W[l] of N x N for     *)
(* 1 <= l < L and W[L] of N x 1, the columns of every W[l] as many as the  *)
(* rows of W[l+1]; the rows of W[0..L-1] followed by the column of W[L]    *)
(* are the weight rows of the file in file order; the output bias has      *)
(* width 1.                                                                *)
(***************************************************************************)
Complete(file) ==
    /\ file.open /\ file.m_nLayers >= 1 /\ file.m_numberOfOutputs = 1
    /\ Len(file.weights) =
          file.m_numberOfInputs + (file.m_nLayers - 1) * file.m_nNodes + 1
    /\ \A r \in 1..Len(file.weights) : Len(file.weights[r]) = file.m_nNodes

(* the weight rows as the loaded matrices hold them *)
RowsLoaded ==
    Flatten(Stored([l \in 1..m_nLayers |-> m_weights[l]]))
        \o << Transpose(At(m_weights, m_nLayers))[1] >>

WeightsChain ==
    /\ Len(m_weights) = m_nLayers + 1
    /\ n_rows(At(m_weights, 0)) = m_numberOfInputs
    /\ \A l \in 0..(m_nLayers - 1) : n_cols(At(m_weights, l)) = m_nNodes
    /\ \A l \in 1..m_nLayers : n_rows(At(m_weights, l)) = m_nNodes
    /\ n_cols(At(m_weights, m_nLayers)) = 1
    /\ \A l \in 0..(m_nLayers - 1) :
          n_cols(At(m_weights, l)) = n_rows(At(m_weights, l + 1))
    /\ RowsLoaded = inputGraph.weights
    /\ n_rows(At(m_biases, m_nLayers)) = 1 /\ n_cols(At(m_biases, m_nLayers)) = 1
    /\ At(m_biases, m_nLayers) = << inputGraph.biases[m_nLayers + 1] >>

C22_WeightsChain ==
    (pc # "constructed" /\ Complete(inputGraph)) =>
        pc = "ready" /\ WeightsChain

(* the same for files of two nodes and more per layer *)
WeightsChainOfWideLayers ==
    (pc # "constructed" /\ Complete(inputGraph) /\ inputGraph.m_nNodes >= 2) =>
        pc = "ready" /\ WeightsChain

(* read_file has stopped on a complete file for hidden layers of one node *)
C22_OneNodeLayersStop ==
    /\ pc = "aborted" /\ Complete(inputGraph)
    /\ inputGraph.m_nNodes = 1 /\ inputGraph.m_nLayers = 1
    /\ inputGraph.m_numberOfInputs = 2
    /\ m_weights = <<>>

(***************************************************************************)
(* C23.  When the force loops of PairNNAngular2::compute run, every        *)
(* iteration of the pair loop belongs to a record of 3 numbers and every   *)
(* iteration of the triplet loop to a record of 4 numbers, as in the       *)
(* descriptor loops; a record of any other length has no iteration, and    *)
(* its component of the descriptor vector is zero.                         *)
(***************************************************************************)
C23_RecordsClassifiedAlike ==
    (style = "angular2" /\ pc \in {"force", "aborted"} /\ x # <<>>
                       /\ Len(m_parameters) >= m_numberOfSymmFunc) =>
        /\ \A n \in 1..Len(Steps) :
              /\ Steps[n].kind = "pair" => Len(m_parameters[Steps[n].s + 1]) = 3
              /\ Steps[n].kind = "triplet" => Len(m_parameters[Steps[n].s + 1]) = 4
        /\ \A s \in 1..m_numberOfSymmFunc :
              (Len(m_parameters[s]) \notin {3, 4} /\ n_cols(inputVector) >= s) =>
                  inputVector[1][s] = (IF m_shift = 1 THEN RNeg(m_allMeans[s]) ELSE Zero)

(* compute has stopped in the triplet loop on a record without numbers,    *)
(* whose component of the descriptor vector is zero                        *)
C23_EmptyRecordInTripletLoop ==
    /\ style = "angular2" /\ pc = "aborted"
    /\ step >= 1 /\ step <= Len(Steps)
    /\ Steps[step].kind = "triplet"
    /\ Len(m_parameters[Steps[step].s + 1]) = 0
    /\ inputVector[1][Steps[step].s + 1] = Zero
    /\ dEdG[1][Steps[step].s + 1] # Zero

(***************************************************************************)
(* C24.  For every neighbour that the pair loop of the force phase visits  *)
(* for a radial descriptor (eta, Rc, Rs) and that lies at a distance R     *)
(* with Rc <= R (and R inside the global cutoff), the neighbour's term of  *)
(* the descriptor, G2, and its term of the descriptor's derivative, dG2dR, *)
(* are both zero, and the pair iteration leaves f and fx2 as they are.     *)
(***************************************************************************)
(* the radial record and the distance of the pair iteration at hand *)
PairRecord ==
    m_parameters[Steps[step].s + 1]

PairDistance ==
    At(Rij, Steps[step].l)

BeyondRc ==
    PairStep /\ RGe(PairDistance, At(PairRecord, 1))

C24_ClampedAlike ==
    [][
        BeyondRc =>
            /\ G2(PairDistance, At(PairRecord, 0), At(PairRecord, 1),
                  At(PairRecord, 2)) = Zero
            /\ dG2dR(PairDistance, At(PairRecord, 0), At(PairRecord, 1),
                     At(PairRecord, 2)) = Zero
            /\ f' = f /\ fx2' = fx2
    ]_vars

(* the pair loop has added a force for the one neighbour of the anchor,    *)
(* which lies beyond the descriptor's Rc and adds nothing to the           *)
(* descriptor                                                              *)
C24_ForceWithoutEnergy ==
    /\ style = "angular2" /\ pc = "force" /\ neighbours = 1 /\ step = 2
    /\ Len(m_parameters[1]) = 3
    /\ RGt(At(Rij, 0), At(m_parameters[1], 1))
    /\ G2(At(Rij, 0), At(m_parameters[1], 0), At(m_parameters[1], 1),
          At(m_parameters[1], 2)) = Zero
    /\ fx2 # V0
    /\ At(f, At(tagsj, 0)) # At(f0, At(tagsj, 0))

(***************************************************************************)
(* C25.  compute never indexes a container past its end and never builds   *)
(* a container of negative size: the vectors of jnum - 1 entries that      *)
(* PairNNAngular2 builds for an anchor have a size of at least 0, every    *)
(* store of the first loop of PairNNAngular3 into neighShort, Riks,        *)
(* cosThetas, tagsk and eatom lies inside the container, and so does       *)
(* every read of the second loop from neighShort, Rij and Riks.            *)
(***************************************************************************)
C25_IndicesInBounds ==
    /\ (style = "angular2" /\ pc = "collect") =>
           Len(At(firstneigh, Anchor)) - 1 >= 0
    /\ (style = "angular3" /\ pc = "collect3") =>
           ~Store3(Collect3(x, Anchor, At(firstneigh, Anchor), cutoff,
                            m_parameters, m_numberOfSymmFunc),
                   Anchor, ii, Len(At(firstneigh, Anchor))).fault
    /\ (style = "angular3" /\ pc = "force3") => ~ForceReads3(Anchor, ii).fault

(* the first loop of PairNNAngular3 has stopped at the only anchor of a    *)
(* list, which has three neighbours inside the cutoff: the tables have one *)
(* entry and the second and third neighbour are stored at positions 1, 2   *)
C25_MoreNeighboursThanAnchors ==
    /\ style = "angular3" /\ pc = "aborted"
    /\ inum = 1 /\ Len(neighShort) = 1 /\ evaluated = <<>>
    /\ Collect3(x, Anchor, At(firstneigh, Anchor), cutoff,
                m_parameters, m_numberOfSymmFunc).neighbours = 3

(***************************************************************************)
(* coeff() called a second time on the same object, with the directory of  *)
(* the first call.  read_file runs on the members the first call left:     *)
(* m_biases, m_parameters[i] and m_allMeans are filled with push_back.     *)
(***************************************************************************)
(* coeff() again when read_file returns *)
CoeffAgain ==
    /\ pc = "ready"
    /\ \E cut \in CutoffArgs, g \in Garbage :
          \E graph \in {ReadGraph(GraphStream(Dirs[trained].graph), m_biases, g)} :
              /\ ~graph.throws
              /\ Loaded(trained, graph)
              /\ cutoff' = cut
    /\ allocated' = 1
    /\ setflag' = SetAll
    /\ result' = Passed("coeff", AllTypes)
    /\ pc' = "reloaded"
    /\ UNCHANGED <<myStep, atomVars, tableVars, wideVars, accVars, sideVars,
                   style, ntypes, f, eng_vdwl, eatom, ii, evdwl, inputVector,
                   dEdG, step, fxtmp, evaluated, calls, stats>>

(* coeff() again when read_file ends the process *)
CoeffAgainAbort ==
    /\ pc = "ready"
    /\ \E g \in Garbage :
          \E graph \in {ReadGraph(GraphStream(Dirs[trained].graph), m_biases, g)} :
              graph.throws \/ graph.ub
    /\ pc' = "aborted"
    /\ UNCHANGED <<myStep, pairVars, netVars, cacheVars, atomVars, tableVars,
                   wideVars, accVars, sideVars, f, eng_vdwl, eatom, ii,
                   evdwl, inputVector, dEdG, step, fxtmp, evaluated, calls,
                   result, stats>>

NextCoeffTwice ==
    \/ Coeff
    \/ CoeffAbort
    \/ CoeffAgain
    \/ CoeffAgainAbort

SpecCoeffTwice ==
    Init /\ [][NextCoeffTwice]_vars

(***************************************************************************)
(* C26.  A second coeff() with the files of the first returns and leaves   *)
(* the weights, the biases, the descriptor records (each of 3 or 4         *)
(* values), the shift flag and the feature means as the first call left    *)
(* them.                                                                   *)
(***************************************************************************)
C26_LoadingIdempotent ==
    [][
        pc = "ready" =>
            /\ pc' = "reloaded"
            /\ m_weights' = m_weights /\ m_weightsTransposed' = m_weightsTransposed
            /\ m_biases' = m_biases
            /\ m_parameters' = m_parameters
            /\ \A s \in 1..Len(m_parameters') : Len(m_parameters'[s]) \in {3, 4}
            /\ m_shift' = m_shift /\ m_allMeans' = m_allMeans
    ]_vars

(* the second coeff() has stopped in read_file: the biases of the second   *)
(* load were appended behind those of the first and shed_cols reached the  *)
(* one-column output bias of the first load                                *)
C26_SecondLoadStops ==
    /\ pc = "aborted" /\ trained # "" /\ setflag = SetAll
    /\ Dirs[trained].graph.open
    /\ Len(m_biases) = m_nLayers + 1
    /\ n_cols(At(m_biases, m_nLayers)) = 1

(***************************************************************************)
(* PairNN::compute on a full list of two particles that list each other,   *)
(* with any tags: the two may carry the same tag, as a particle and its    *)
(* periodic image do.                                                      *)
(***************************************************************************)
MaxTag ==
    3

(* where the two particles may lie *)
Sites ==
    {<<0, 0, 0>>, <<1, 0, 0>>, <<0, 1, 0>>, <<0, 0, 1>>, <<2, 0, 0>>, <<0, 0, 2>>}

(* lines 134-158 of PairNN::compute for such a list *)
NNBeginTagged ==
    /\ pc = "ready" /\ style = "nn"
    /\ \E xi \in Sites, itag \in 1..MaxTag, jtag \in 1..MaxTag, k \in 0..MaxPrior :
          \E xj \in Sites \ {xi} :
          \E cfg \in {[x |-> <<xi, xj>>, inum |-> 2, ilist |-> <<0, 1>>,
                       firstneigh |-> << <<1>>, <<0>> >>]} :
              /\ Representable(cfg, cutoff, m_parameters)
              /\ given' = [c |-> "tagged", k |-> k, o |-> Listed]
              /\ x' = cfg.x
              /\ tag' = <<itag, jtag>>
              /\ inum' = cfg.inum
              /\ ilist' = cfg.ilist
              /\ firstneigh' = cfg.firstneigh
              /\ f' = PriorForce(k, Len(cfg.x))
              /\ f0' = PriorForce(k, Len(cfg.x))
              /\ e0' = PriorEnergy(k)
              /\ eng_vdwl' = PriorEnergy(k)
    /\ ii' = 0
    /\ evdwl' = Zero
    /\ evaluated' = <<>>
    /\ fxtmp' = V0
    /\ step' = 0
    /\ pc' = "pairs"
    /\ UNCHANGED <<myStep, pairVars, netVars, cacheVars, tableVars, wideVars,
                   accVars, sideVars, eatom, inputVector, dEdG, calls,
                   result, stats>>

NextTagged ==
    \/ Coeff
    \/ CoeffAbort
    \/ NNBeginTagged
    \/ NNPair
    \/ NNFlush

InitTagged ==
    /\ style = "nn"
    /\ inputGraph = Missing
    /\ ntypes = 1
    /\ Constructed

SpecTagged ==
    InitTagged /\ [][NextTagged]_vars

(***************************************************************************)
(* C27.  In PairNN::compute on a full list, a pair of particles inside the *)
(* cutoff that list each other and differ in tag or in position is         *)
(* evaluated from anchor i exactly when the rule skips it from anchor j:   *)
(* of the two visits of the pair, one is evaluated and one is skipped.     *)
(***************************************************************************)
(* the neighbour that the next iteration over jj visits *)
Visited ==
    At(At(firstneigh, Anchor), step)

VisitsPair ==
    /\ style = "nn" /\ pc = "pairs" /\ step < Len(At(firstneigh, Anchor))
    /\ networkSizesOk(m_weights, m_biases, m_nLayers, 1)

Lists(i, j) ==
    \E ii2 \in 0..(inum - 1) :
        At(ilist, ii2) = i /\ \E jj \in 1..Len(At(firstneigh, i)) : At(firstneigh, i)[jj] = j

C27_OneSideOfEveryPair ==
    [][
        (/\ VisitsPair
         /\ Lists(Visited, Anchor)
         /\ InCutoff(x, Anchor, Visited, cutoff)
         /\ (At(tag, Anchor) # At(tag, Visited) \/ At(x, Anchor) # At(x, Visited)))
        =>
           /\ (evaluated' # evaluated) <=>
                 SkipPair(At(tag, Visited), At(tag, Anchor), At(x, Visited), At(x, Anchor))
           /\ (evaluated' # evaluated) <=>
                 ~SkipPair(At(tag, Anchor), At(tag, Visited), At(x, Anchor), At(x, Visited))
    ]_vars

(* compute has gone through the lists of two particles of the same tag     *)
(* that lie inside the cutoff, and has evaluated the pair once, from the   *)
(* second                                                                  *)
C27_ImagePairOnce ==
    /\ style = "nn" /\ pc = "done" /\ Len(tag) = 2 /\ tag[1] = tag[2]
    /\ InCutoff(x, 0, 1, cutoff)
    /\ Len(evaluated) = 1 /\ evaluated[1].anchor = 1

(***************************************************************************)
(* The commands of an input script on the pair style: pair_style           *)
(* (settings), pair_coeff (coeff) and, from the initialisation of a run,   *)
(* init_one for the pairs of types i <= j.  error->all hands the message   *)
(* to the caller and the command is over.  The entries of setflag that     *)
(* coeff() has not stored into read as 0.                                  *)
(***************************************************************************)
MaxTypes ==
    2

InitCommands ==
    /\ style \in Styles
    /\ inputGraph = Missing
    /\ ntypes \in 0..MaxTypes
    /\ Constructed

(* settings(narg, arg) *)
Settings ==
    /\ pc = "constructed"
    /\ \E narg \in 0..1 :
          IF narg # 0
          THEN /\ result' = Raised("settings", <<narg>>, "Illegal pair_style command")
               /\ pc' = "rejected"
          ELSE /\ result' = Passed("settings", <<narg>>)
               /\ pc' = pc
    /\ UNCHANGED <<myStep, pairVars, netVars, cacheVars, atomVars, tableVars,
                   wideVars, accVars, sideVars, f, eng_vdwl, eatom, ii,
                   evdwl, inputVector, dEdG, step, fxtmp, evaluated, calls,
                   stats>>

(* a variant of coeff() that stores the default cutoff before it looks at  *)
(* its arguments                                                           *)
CoeffRejectedCutoffReset ==
    /\ pc \in {"constructed", "ready"}
    /\ \E narg \in 3..5, arg0 \in {"*", "1"}, arg1 \in {"*", "1"} :
          /\ <<narg, arg0, arg1>> # AllTypes
          /\ result' = Raised("coeff", <<narg, arg0, arg1>>,
                              "Incorrect args for pair coefficients")
    /\ allocated' = 1
    /\ cutoff' = N(10)
    /\ pc' = "rejected"
    /\ UNCHANGED <<myStep, netVars, cacheVars, atomVars, tableVars, wideVars,
                   accVars, sideVars, style, setflag, ntypes, f, eng_vdwl,
                   eatom, ii, evdwl, inputVector, dEdG, step, fxtmp,
                   evaluated, calls, stats>>

(* coeff() with an argument count other than 4 or a type argument other    *)
(* than "*": lines 995-1003                                                *)
CoeffRejected ==
    /\ pc \in {"constructed", "ready"}
    /\ \E narg \in 3..5, arg0 \in {"*", "1"}, arg1 \in {"*", "1"} :
          /\ <<narg, arg0, arg1>> # AllTypes
          /\ result' = Raised("coeff", <<narg, arg0, arg1>>,
                              "Incorrect args for pair coefficients")
    /\ allocated' = 1
    /\ pc' = "rejected"
    /\ UNCHANGED <<myStep, netVars, cacheVars, atomVars, tableVars, wideVars,
                   accVars, sideVars, style, cutoff, setflag, ntypes, f,
                   eng_vdwl, eatom, ii, evdwl, inputVector, dEdG, step,
                   fxtmp, evaluated, calls, stats>>

(* a variant of init_one that returns the cutoff of the constructor *)
InitOneDefault ==
    /\ pc \in {"ready", "reloaded", "rejected"}
    /\ allocated = 1
    /\ \E i \in 1..ntypes : \E j \in i..ntypes :
          IF <<i, j>> \in setflag
          THEN /\ result' = [call |-> "init_one", args |-> <<i, j>>, error |-> "",
                             value |-> N(10)]
               /\ pc' = pc
          ELSE /\ result' = Raised("init_one", <<i, j>>, "All pair coeffs are not set")
               /\ pc' = "rejected"
    /\ UNCHANGED <<myStep, pairVars, netVars, cacheVars, atomVars, tableVars,
                   wideVars, accVars, sideVars, f, eng_vdwl, eatom, ii,
                   evdwl, inputVector, dEdG, step, fxtmp, evaluated, calls,
                   stats>>

(* init_one(i, j) *)
InitOne ==
    /\ pc \in {"ready", "reloaded", "rejected"}
    /\ allocated = 1
    /\ \E i \in 1..ntypes : \E j \in i..ntypes :
          IF <<i, j>> \in setflag
          THEN /\ result' = [call |-> "init_one", args |-> <<i, j>>, error |-> "",
                             value |-> cutoff]
               /\ pc' = pc
          ELSE /\ result' = Raised("init_one", <<i, j>>, "All pair coeffs are not set")
               /\ pc' = "rejected"
    /\ UNCHANGED <<myStep, pairVars, netVars, cacheVars, atomVars, tableVars,
                   wideVars, accVars, sideVars, f, eng_vdwl, eatom, ii,
                   evdwl, inputVector, dEdG, step, fxtmp, evaluated, calls,
                   stats>>

NextCommands ==
    \/ Settings
    \/ Coeff
    \/ CoeffAbort
    \/ CoeffRejected
    \/ CoeffAgain
    \/ CoeffAgainAbort
    \/ InitOne

SpecCommands ==
    InitCommands /\ [][NextCommands]_vars

(***************************************************************************)
(* C28.  settings raises "Illegal pair_style command" exactly when it is   *)
(* given an argument.  coeff with an argument count other than 4, or with  *)
(* a type argument other than "*", raises "Incorrect args for pair         *)
(* coefficients", and such a call leaves the network parameters, the       *)
(* cutoff and the setflag entries as they were.                            *)
(***************************************************************************)
C28_BadArgumentsRejected ==
    [][
        /\ (result' # result /\ result'.call = "settings") =>
               /\ (result'.error = "Illegal pair_style command") <=> (result'.args[1] # 0)
               /\ result'.error \in {"", "Illegal pair_style command"}
               /\ netVars' = netVars /\ cutoff' = cutoff /\ setflag' = setflag
        /\ (result' # result /\ result'.call = "coeff" /\ result'.args # AllTypes) =>
               /\ result'.error = "Incorrect args for pair coefficients"
               /\ netVars' = netVars /\ cutoff' = cutoff /\ setflag' = setflag
    ]_vars

(* a coeff with three arguments was rejected on an object that an earlier  *)
(* coeff had loaded: the loaded network and the cutoff are in place        *)
C28_RejectedAfterLoading ==
    /\ pc = "rejected" /\ result.call = "coeff" /\ result.args[1] = 3
    /\ trained = "ra" /\ cutoff = N(2) /\ setflag = SetAll /\ ntypes = 2
    /\ Len(m_weights) = 2

MaxProcs ==
    2

(* the largest n of a process *)
MaxLocal ==
    2

MaxValue ==
    3

MaxHisto ==
    3

(* 1.0e20 of lines 762-763, beyond every value: the largest power of ten   *)
(* of the integers at hand                                                 *)
Huge ==
    1000000000

(* the sequences of at most n values *)
UpTo(n) ==
    UNION {[1..k -> 0..MaxValue] : k \in 0..n}

RECURSIVE SumOf(_)
SumOf(v) ==
    IF v = <<>> THEN 0 ELSE Head(v) + SumOf(Tail(v))

RECURSIVE Least(_, _)
Least(v, start) ==
    IF v = <<>> THEN start
    ELSE Least(Tail(v), IF Head(v) < start THEN Head(v) ELSE start)

RECURSIVE Greatest(_, _)
Greatest(v, start) ==
    IF v = <<>> THEN start
    ELSE Greatest(Tail(v), IF Head(v) > start THEN Head(v) ELSE start)

(* a variant of lines 788-790 without the test m > nhisto-1 *)
BinUnclamped(d, min, del, nhisto) ==
    IF del = 0 THEN 0 ELSE ((d - min) * nhisto) \div del

(* lines 788-790: the bin m of the value d *)
Bin(d, min, del, nhisto) ==
    LET m == IF del = 0 THEN 0 ELSE ((d - min) * nhisto) \div del
    IN  IF m > nhisto - 1 THEN nhisto - 1 ELSE m

(* lines 787-792: histo[m]++ for every value of the process; a store       *)
(* outside histo is not part of the result                                 *)
RECURSIVE Binned(_, _, _, _, _)
Binned(values, histo, min, del, nhisto) ==
    IF values = <<>> THEN histo
    ELSE LET m == Bin(Head(values), min, del, nhisto)
         IN  Binned(Tail(values),
                    IF m + 1 \in DOMAIN histo THEN [histo EXCEPT ![m + 1] = @ + 1]
                    ELSE histo,
                    min, del, nhisto)

(* lines 762-771 on every process: the loop over the process's values *)
StatsLocal ==
    /\ stats.at = "idle"
    /\ \E data \in [1..MaxProcs -> UpTo(MaxLocal)], nhisto \in 1..MaxHisto :
          stats' = [at |-> "local", data |-> data, nhisto |-> nhisto,
                    min |-> Stored([p \in 1..MaxProcs |-> Least(data[p], Huge)]),
                    max |-> Stored([p \in 1..MaxProcs |-> Greatest(data[p], -Huge)]),
                    ave |-> Stored([p \in 1..MaxProcs |-> <<SumOf(data[p]), 1>>]),
                    ntotal |-> 0, histo |-> <<>>]
    /\ UNCHANGED <<pc, myStep, pairVars, netVars, cacheVars, atomVars, tableVars,
                   wideVars, accVars, sideVars, fxtmp, f, eng_vdwl, eatom, ii,
                   evdwl, inputVector, dEdG, step, evaluated, calls, result>>

(* lines 773-784: the four MPI_Allreduce calls, and histo set to zero *)
StatsReduce ==
    /\ stats.at = "local"
    /\ \E ntotal \in {SumOf(Stored([p \in 1..MaxProcs |-> Len(stats.data[p])]))} :
          stats' = [stats EXCEPT
                       !.at = "reduced",
                       !.ntotal = ntotal,
                       !.ave = Stored([p \in 1..MaxProcs |->
                                   <<SumOf(Stored([q \in 1..MaxProcs |-> stats.ave[q][1]])),
                                     ntotal>>]),
                       !.min = Stored([p \in 1..MaxProcs |-> Least(stats.min, Huge)]),
                       !.max = Stored([p \in 1..MaxProcs |-> Greatest(stats.max, -Huge)]),
                       !.histo = Stored([p \in 1..MaxProcs |->
                                     Stored([b \in 1..stats.nhisto |-> 0])])]
    /\ UNCHANGED <<pc, myStep, pairVars, netVars, cacheVars, atomVars, tableVars,
                   wideVars, accVars, sideVars, fxtmp, f, eng_vdwl, eatom, ii,
                   evdwl, inputVector, dEdG, step, evaluated, calls, result>>

(* lines 786-792 on every process *)
StatsBin ==
    /\ stats.at = "reduced"
    /\ stats' = [stats EXCEPT
                     !.at = "binned",
                     !.histo = Stored([p \in 1..MaxProcs |->
                                   Binned(stats.data[p], stats.histo[p], stats.min[p],
                                          stats.max[p] - stats.min[p], stats.nhisto)])]
    /\ UNCHANGED <<pc, myStep, pairVars, netVars, cacheVars, atomVars, tableVars,
                   wideVars, accVars, sideVars, fxtmp, f, eng_vdwl, eatom, ii,
                   evdwl, inputVector, dEdG, step, evaluated, calls, result>>

(* lines 794-797: MPI_Allreduce of histo, copied back on every process *)
StatsSum ==
    /\ stats.at = "binned"
    /\ stats' = [stats EXCEPT
                     !.at = "summed",
                     !.histo = Stored([p \in 1..MaxProcs |->
                                   Stored([b \in 1..stats.nhisto |->
                                       SumOf(Stored([q \in 1..MaxProcs |->
                                                 stats.histo[q][b]]))])])]
    /\ UNCHANGED <<pc, myStep, pairVars, netVars, cacheVars, atomVars, tableVars,
                   wideVars, accVars, sideVars, fxtmp, f, eng_vdwl, eatom, ii,
                   evdwl, inputVector, dEdG, step, evaluated, calls, result>>

NextStats ==
    \/ StatsLocal
    \/ StatsReduce
    \/ StatsBin
    \/ StatsSum

InitStats ==
    /\ style = "nn"
    /\ inputGraph = Missing
    /\ ntypes = 1
    /\ Constructed

SpecStats ==
    InitStats /\ [][NextStats]_vars

(***************************************************************************)
(* C30.  Finish::stats counts every value of every process in exactly one  *)
(* bin, with an index in 0..nhisto-1: the last bin for a value equal to    *)
(* the global maximum when that differs from the global minimum, bin 0     *)
(* for every value when the two are equal.  The bins of the reduced        *)
(* histogram add up to the number of values of all processes.              *)
(***************************************************************************)
(* the values of process p that belong to bin b *)
InBin(p, b) ==
    {i \in 1..Len(stats.data[p]) :
        Bin(stats.data[p][i], stats.min[p], stats.max[p] - stats.min[p],
            stats.nhisto) = b}

C30_EveryValueInOneBin ==
    /\ stats.at \in {"binned", "summed"} =>
          \A p \in 1..MaxProcs : \A i \in 1..Len(stats.data[p]) :
              \E m \in {Bin(stats.data[p][i], stats.min[p],
                             stats.max[p] - stats.min[p], stats.nhisto)} :
                  /\ m \in 0..(stats.nhisto - 1)
                  /\ (stats.data[p][i] = stats.max[p] /\ stats.max[p] # stats.min[p])
                        => m = stats.nhisto - 1
                  /\ stats.max[p] = stats.min[p] => m = 0
    /\ stats.at = "binned" =>
          \A p \in 1..MaxProcs :
              /\ Len(stats.histo[p]) = stats.nhisto
              /\ \A b \in 1..stats.nhisto :
                     stats.histo[p][b] = Cardinality(InBin(p, b - 1))
              /\ SumOf(stats.histo[p]) = Len(stats.data[p])
    /\ stats.at = "summed" =>
          \A p \in 1..MaxProcs :
              /\ \A b \in 1..stats.nhisto :
                     stats.histo[p][b] =
                        SumOf(Stored([q \in 1..MaxProcs |-> Cardinality(InBin(q, b - 1))]))
              /\ SumOf(stats.histo[p]) = stats.ntotal
              /\ stats.ntotal = SumOf(Stored([q \in 1..MaxProcs |-> Len(stats.data[q])]))

(* four values on two processes in three bins: the largest value, on the   *)
(* second process, is counted in the last bin                              *)
C30_LargestInLastBin ==
    /\ stats.at = "summed" /\ stats.nhisto = 3
    /\ stats.data = << <<0, 1>>, <<3, 2>> >>
    /\ stats.histo[1] = <<1, 1, 2>>

=============================================================================
